---- MODULE Spec2Model ----
(***************************************************************************)
(* A model of the AI Content Scanner: the shared scanning module           *)
(* (src/lib/scanner.js), the browser extension's copy of the same          *)
(* analysis (src/content.js) and the API handlers (src/api/*.js).          *)
(*                                                                         *)
(* Strings and byte buffers are sequences of integers: a byte is           *)
(* 0..255, a character is its UTF-16 code unit.  The string tables of      *)
(* the source are written out as tuples of code units, each with the       *)
(* literal it stands for in a comment.                                     *)
(***************************************************************************)
EXTENDS Integers, Sequences, FiniteSets, TLC

\* src/lib/scanner.js:10-29
AI_SOFTWARE_SIGNATURES ==
  <<
    <<100,97,108,108,45,101>>,  \* "dall-e"
    <<100,97,108,108,183,101>>,  \* "dall\u00B7e"
    <<111,112,101,110,97,105>>,  \* "openai"
    <<99,104,97,116,103,112,116>>,  \* "chatgpt"
    <<109,105,100,106,111,117,114,110,101,121>>,  \* "midjourney"
    <<115,116,97,98,108,101,32,100,105,102,102,117,115,105,111,110>>,  \* "stable diffusion"
    <<115,116,97,98,105,108,105,116,121,32,97,105>>,  \* "stability ai"
    <<115,116,97,98,105,108,105,116,121,97,105>>,  \* "stabilityai"
    <<115,116,97,98,108,101,100,105,102,102,117,115,105,111,110>>,  \* "stablediffusion"
    <<97,100,111,98,101,32,102,105,114,101,102,108,121>>,  \* "adobe firefly"
    <<102,105,114,101,102,108,121>>,  \* "firefly"
    <<105,109,97,103,101,110>>,  \* "imagen"
    <<103,111,111,103,108,101,32,100,101,101,112,109,105,110,100>>,  \* "google deepmind"
    <<100,101,101,112,109,105,110,100>>,  \* "deepmind"
    <<108,101,111,110,97,114,100,111,32,97,105>>,  \* "leonardo ai"
    <<108,101,111,110,97,114,100,111,46,97,105>>,  \* "leonardo.ai"
    <<105,100,101,111,103,114,97,109>>,  \* "ideogram"
    <<112,108,97,121,103,114,111,117,110,100,32,97,105>>,  \* "playground ai"
    <<102,108,117,120>>,  \* "flux"
    <<98,108,97,99,107,32,102,111,114,101,115,116,32,108,97,98,115>>,  \* "black forest labs"
    <<98,105,110,103,32,105,109,97,103,101,32,99,114,101,97,116,111,114>>,  \* "bing image creator"
    <<109,105,99,114,111,115,111,102,116,32,100,101,115,105,103,110,101,114>>,  \* "microsoft designer"
    <<99,97,110,118,97,32,97,105>>,  \* "canva ai"
    <<99,97,110,118,97,32,109,97,103,105,99>>,  \* "canva magic"
    <<110,105,103,104,116,99,97,102,101>>,  \* "nightcafe"
    <<97,114,116,98,114,101,101,100,101,114>>,  \* "artbreeder"
    <<99,111,112,105,108,111,116,32,100,101,115,105,103,110,101,114>>,  \* "copilot designer"
    <<103,114,111,107>>,  \* "grok"
    <<120,97,105>>,  \* "xai"
    <<103,101,109,105,110,105>>,  \* "gemini"
    <<115,111,114,97>>,  \* "sora"
    <<114,117,110,119,97,121>>,  \* "runway"
    <<114,117,110,119,97,121,109,108>>,  \* "runwayml"
    <<112,105,107,97>>,  \* "pika"
    <<107,108,105,110,103>>,  \* "kling"
    <<118,101,111>>,  \* "veo"
    <<108,117,109,97>>,  \* "luma"
    <<104,97,105,112,101,114>>,  \* "haiper"
    <<109,105,110,105,109,97,120>>,  \* "minimax"
    <<104,97,105,108,117,111>>  \* "hailuo"
  >>

\* src/content.js:11-30 (the extension's copy adds "mj")
content_AI_SOFTWARE_SIGNATURES ==
  <<
    <<100,97,108,108,45,101>>,  \* "dall-e"
    <<100,97,108,108,183,101>>,  \* "dall\u00B7e"
    <<111,112,101,110,97,105>>,  \* "openai"
    <<99,104,97,116,103,112,116>>,  \* "chatgpt"
    <<109,105,100,106,111,117,114,110,101,121>>,  \* "midjourney"
    <<109,106>>,  \* "mj"
    <<115,116,97,98,108,101,32,100,105,102,102,117,115,105,111,110>>,  \* "stable diffusion"
    <<115,116,97,98,105,108,105,116,121,32,97,105>>,  \* "stability ai"
    <<115,116,97,98,105,108,105,116,121,97,105>>,  \* "stabilityai"
    <<115,116,97,98,108,101,100,105,102,102,117,115,105,111,110>>,  \* "stablediffusion"
    <<97,100,111,98,101,32,102,105,114,101,102,108,121>>,  \* "adobe firefly"
    <<102,105,114,101,102,108,121>>,  \* "firefly"
    <<105,109,97,103,101,110>>,  \* "imagen"
    <<103,111,111,103,108,101,32,100,101,101,112,109,105,110,100>>,  \* "google deepmind"
    <<100,101,101,112,109,105,110,100>>,  \* "deepmind"
    <<108,101,111,110,97,114,100,111,32,97,105>>,  \* "leonardo ai"
    <<108,101,111,110,97,114,100,111,46,97,105>>,  \* "leonardo.ai"
    <<105,100,101,111,103,114,97,109>>,  \* "ideogram"
    <<112,108,97,121,103,114,111,117,110,100,32,97,105>>,  \* "playground ai"
    <<102,108,117,120>>,  \* "flux"
    <<98,108,97,99,107,32,102,111,114,101,115,116,32,108,97,98,115>>,  \* "black forest labs"
    <<98,105,110,103,32,105,109,97,103,101,32,99,114,101,97,116,111,114>>,  \* "bing image creator"
    <<109,105,99,114,111,115,111,102,116,32,100,101,115,105,103,110,101,114>>,  \* "microsoft designer"
    <<99,97,110,118,97,32,97,105>>,  \* "canva ai"
    <<99,97,110,118,97,32,109,97,103,105,99>>,  \* "canva magic"
    <<110,105,103,104,116,99,97,102,101>>,  \* "nightcafe"
    <<97,114,116,98,114,101,101,100,101,114>>,  \* "artbreeder"
    <<99,111,112,105,108,111,116,32,100,101,115,105,103,110,101,114>>,  \* "copilot designer"
    <<103,114,111,107>>,  \* "grok"
    <<120,97,105>>,  \* "xai"
    <<103,101,109,105,110,105>>,  \* "gemini"
    <<115,111,114,97>>,  \* "sora"
    <<114,117,110,119,97,121>>,  \* "runway"
    <<114,117,110,119,97,121,109,108>>,  \* "runwayml"
    <<112,105,107,97>>,  \* "pika"
    <<107,108,105,110,103>>,  \* "kling"
    <<118,101,111>>,  \* "veo"
    <<108,117,109,97>>,  \* "luma"
    <<104,97,105,112,101,114>>,  \* "haiper"
    <<109,105,110,105,109,97,120>>,  \* "minimax"
    <<104,97,105,108,117,111>>  \* "hailuo"
  >>

\* src/lib/scanner.js:32-56, as <<key, display name>> pairs
AI_SOURCE_NAMES ==
  <<
    << <<100,97,108,108,45,101>>,
       <<68,65,76,76,45,69>> >>,  \* "dall-e": "DALL-E"
    << <<100,97,108,108,183,101>>,
       <<68,65,76,76,45,69>> >>,  \* "dall\u00B7e": "DALL-E"
    << <<111,112,101,110,97,105>>,
       <<79,112,101,110,65,73>> >>,  \* "openai": "OpenAI"
    << <<99,104,97,116,103,112,116>>,
       <<67,104,97,116,71,80,84>> >>,  \* "chatgpt": "ChatGPT"
    << <<109,105,100,106,111,117,114,110,101,121>>,
       <<77,105,100,106,111,117,114,110,101,121>> >>,  \* "midjourney": "Midjourney"
    << <<115,116,97,98,108,101,32,100,105,102,102,117,115,105,111,110>>,
       <<83,116,97,98,108,101,32,68,105,102,102,117,115,105,111,110>> >>,  \* "stable diffusion": "Stable Diffusion"
    << <<115,116,97,98,105,108,105,116,121,32,97,105>>,
       <<83,116,97,98,105,108,105,116,121,32,65,73>> >>,  \* "stability ai": "Stability AI"
    << <<115,116,97,98,105,108,105,116,121,97,105>>,
       <<83,116,97,98,105,108,105,116,121,32,65,73>> >>,  \* "stabilityai": "Stability AI"
    << <<115,116,97,98,108,101,100,105,102,102,117,115,105,111,110>>,
       <<83,116,97,98,108,101,32,68,105,102,102,117,115,105,111,110>> >>,  \* "stablediffusion": "Stable Diffusion"
    << <<97,100,111,98,101,32,102,105,114,101,102,108,121>>,
       <<65,100,111,98,101,32,70,105,114,101,102,108,121>> >>,  \* "adobe firefly": "Adobe Firefly"
    << <<102,105,114,101,102,108,121>>,
       <<65,100,111,98,101,32,70,105,114,101,102,108,121>> >>,  \* "firefly": "Adobe Firefly"
    << <<105,109,97,103,101,110>>,
       <<71,111,111,103,108,101,32,73,109,97,103,101,110>> >>,  \* "imagen": "Google Imagen"
    << <<103,111,111,103,108,101,32,100,101,101,112,109,105,110,100>>,
       <<71,111,111,103,108,101,32,68,101,101,112,77,105,110,100>> >>,  \* "google deepmind": "Google DeepMind"
    << <<100,101,101,112,109,105,110,100>>,
       <<71,111,111,103,108,101,32,68,101,101,112,77,105,110,100>> >>,  \* "deepmind": "Google DeepMind"
    << <<108,101,111,110,97,114,100,111,32,97,105>>,
       <<76,101,111,110,97,114,100,111,32,65,73>> >>,  \* "leonardo ai": "Leonardo AI"
    << <<108,101,111,110,97,114,100,111,46,97,105>>,
       <<76,101,111,110,97,114,100,111,32,65,73>> >>,  \* "leonardo.ai": "Leonardo AI"
    << <<105,100,101,111,103,114,97,109>>,
       <<73,100,101,111,103,114,97,109>> >>,  \* "ideogram": "Ideogram"
    << <<112,108,97,121,103,114,111,117,110,100,32,97,105>>,
       <<80,108,97,121,103,114,111,117,110,100,32,65,73>> >>,  \* "playground ai": "Playground AI"
    << <<102,108,117,120>>,
       <<70,76,85,88,32,40,66,108,97,99,107,32,70,111,114,101,115,116,32,76,97,98,115,41>> >>,  \* "flux": "FLUX (Black Forest Labs)"
    << <<98,108,97,99,107,32,102,111,114,101,115,116,32,108,97,98,115>>,
       <<66,108,97,99,107,32,70,111,114,101,115,116,32,76,97,98,115>> >>,  \* "black forest labs": "Black Forest Labs"
    << <<98,105,110,103,32,105,109,97,103,101,32,99,114,101,97,116,111,114>>,
       <<66,105,110,103,32,73,109,97,103,101,32,67,114,101,97,116,111,114>> >>,  \* "bing image creator": "Bing Image Creator"
    << <<109,105,99,114,111,115,111,102,116,32,100,101,115,105,103,110,101,114>>,
       <<77,105,99,114,111,115,111,102,116,32,68,101,115,105,103,110,101,114>> >>,  \* "microsoft designer": "Microsoft Designer"
    << <<99,97,110,118,97,32,97,105>>,
       <<67,97,110,118,97,32,65,73>> >>,  \* "canva ai": "Canva AI"
    << <<99,97,110,118,97,32,109,97,103,105,99>>,
       <<67,97,110,118,97,32,77,97,103,105,99>> >>,  \* "canva magic": "Canva Magic"
    << <<110,105,103,104,116,99,97,102,101>>,
       <<78,105,103,104,116,67,97,102,101>> >>,  \* "nightcafe": "NightCafe"
    << <<97,114,116,98,114,101,101,100,101,114>>,
       <<65,114,116,98,114,101,101,100,101,114>> >>,  \* "artbreeder": "Artbreeder"
    << <<99,111,112,105,108,111,116,32,100,101,115,105,103,110,101,114>>,
       <<67,111,112,105,108,111,116,32,68,101,115,105,103,110,101,114>> >>,  \* "copilot designer": "Copilot Designer"
    << <<103,114,111,107>>,
       <<71,114,111,107,32,40,120,65,73,41>> >>,  \* "grok": "Grok (xAI)"
    << <<120,97,105>>,
       <<120,65,73>> >>,  \* "xai": "xAI"
    << <<103,101,109,105,110,105>>,
       <<71,111,111,103,108,101,32,71,101,109,105,110,105>> >>,  \* "gemini": "Google Gemini"
    << <<115,111,114,97>>,
       <<83,111,114,97,32,40,79,112,101,110,65,73,41>> >>,  \* "sora": "Sora (OpenAI)"
    << <<114,117,110,119,97,121>>,
       <<82,117,110,119,97,121>> >>,  \* "runway": "Runway"
    << <<114,117,110,119,97,121,109,108>>,
       <<82,117,110,119,97,121>> >>,  \* "runwayml": "Runway"
    << <<112,105,107,97>>,
       <<80,105,107,97>> >>,  \* "pika": "Pika"
    << <<107,108,105,110,103>>,
       <<75,108,105,110,103>> >>,  \* "kling": "Kling"
    << <<118,101,111>>,
       <<86,101,111,32,40,71,111,111,103,108,101,41>> >>,  \* "veo": "Veo (Google)"
    << <<108,117,109,97>>,
       <<76,117,109,97,32,68,114,101,97,109,32,77,97,99,104,105,110,101>> >>,  \* "luma": "Luma Dream Machine"
    << <<104,97,105,112,101,114>>,
       <<72,97,105,112,101,114>> >>,  \* "haiper": "Haiper"
    << <<109,105,110,105,109,97,120>>,
       <<77,105,110,105,109,97,120>> >>,  \* "minimax": "Minimax"
    << <<104,97,105,108,117,111>>,
       <<72,97,105,108,117,111,32,65,73>> >>,  \* "hailuo": "Hailuo AI"
    << <<111,97,105,100,97,108,108,101,97,112,105>>,
       <<68,65,76,76,45,69,32,40,79,112,101,110,65,73,41>> >>,  \* "oaidalleapi": "DALL-E (OpenAI)"
    << <<100,97,108,108,101>>,
       <<68,65,76,76,45,69>> >>,  \* "dalle": "DALL-E"
    << <<109,106,45,103,97,108,108,101,114,121>>,
       <<77,105,100,106,111,117,114,110,101,121>> >>,  \* "mj-gallery": "Midjourney"
    << <<114,101,112,108,105,99,97,116,101,46,100,101,108,105,118,101,114,121>>,
       <<82,101,112,108,105,99,97,116,101>> >>,  \* "replicate.delivery": "Replicate"
    << <<114,101,112,108,105,99,97,116,101,46,99,111,109>>,
       <<82,101,112,108,105,99,97,116,101>> >>,  \* "replicate.com": "Replicate"
    << <<112,105,107,97,46,97,114,116>>,
       <<80,105,107,97>> >>,  \* "pika.art": "Pika"
    << <<102,97,108,46,97,105>>,
       <<70,65,76,46,97,105>> >>,  \* "fal.ai": "FAL.ai"
    << <<116,111,103,101,116,104,101,114,46,120,121,122>>,
       <<84,111,103,101,116,104,101,114,32,65,73>> >>  \* "together.xyz": "Together AI"
  >>

\* src/content.js:33-57 (the extension's copy adds "mj")
content_AI_SOURCE_NAMES ==
  <<
    << <<100,97,108,108,45,101>>,
       <<68,65,76,76,45,69>> >>,  \* "dall-e": "DALL-E"
    << <<100,97,108,108,183,101>>,
       <<68,65,76,76,45,69>> >>,  \* "dall\u00B7e": "DALL-E"
    << <<111,112,101,110,97,105>>,
       <<79,112,101,110,65,73>> >>,  \* "openai": "OpenAI"
    << <<99,104,97,116,103,112,116>>,
       <<67,104,97,116,71,80,84>> >>,  \* "chatgpt": "ChatGPT"
    << <<109,105,100,106,111,117,114,110,101,121>>,
       <<77,105,100,106,111,117,114,110,101,121>> >>,  \* "midjourney": "Midjourney"
    << <<109,106>>,
       <<77,105,100,106,111,117,114,110,101,121>> >>,  \* "mj": "Midjourney"
    << <<115,116,97,98,108,101,32,100,105,102,102,117,115,105,111,110>>,
       <<83,116,97,98,108,101,32,68,105,102,102,117,115,105,111,110>> >>,  \* "stable diffusion": "Stable Diffusion"
    << <<115,116,97,98,105,108,105,116,121,32,97,105>>,
       <<83,116,97,98,105,108,105,116,121,32,65,73>> >>,  \* "stability ai": "Stability AI"
    << <<115,116,97,98,105,108,105,116,121,97,105>>,
       <<83,116,97,98,105,108,105,116,121,32,65,73>> >>,  \* "stabilityai": "Stability AI"
    << <<115,116,97,98,108,101,100,105,102,102,117,115,105,111,110>>,
       <<83,116,97,98,108,101,32,68,105,102,102,117,115,105,111,110>> >>,  \* "stablediffusion": "Stable Diffusion"
    << <<97,100,111,98,101,32,102,105,114,101,102,108,121>>,
       <<65,100,111,98,101,32,70,105,114,101,102,108,121>> >>,  \* "adobe firefly": "Adobe Firefly"
    << <<102,105,114,101,102,108,121>>,
       <<65,100,111,98,101,32,70,105,114,101,102,108,121>> >>,  \* "firefly": "Adobe Firefly"
    << <<105,109,97,103,101,110>>,
       <<71,111,111,103,108,101,32,73,109,97,103,101,110>> >>,  \* "imagen": "Google Imagen"
    << <<103,111,111,103,108,101,32,100,101,101,112,109,105,110,100>>,
       <<71,111,111,103,108,101,32,68,101,101,112,77,105,110,100>> >>,  \* "google deepmind": "Google DeepMind"
    << <<100,101,101,112,109,105,110,100>>,
       <<71,111,111,103,108,101,32,68,101,101,112,77,105,110,100>> >>,  \* "deepmind": "Google DeepMind"
    << <<108,101,111,110,97,114,100,111,32,97,105>>,
       <<76,101,111,110,97,114,100,111,32,65,73>> >>,  \* "leonardo ai": "Leonardo AI"
    << <<108,101,111,110,97,114,100,111,46,97,105>>,
       <<76,101,111,110,97,114,100,111,32,65,73>> >>,  \* "leonardo.ai": "Leonardo AI"
    << <<105,100,101,111,103,114,97,109>>,
       <<73,100,101,111,103,114,97,109>> >>,  \* "ideogram": "Ideogram"
    << <<112,108,97,121,103,114,111,117,110,100,32,97,105>>,
       <<80,108,97,121,103,114,111,117,110,100,32,65,73>> >>,  \* "playground ai": "Playground AI"
    << <<102,108,117,120>>,
       <<70,76,85,88,32,40,66,108,97,99,107,32,70,111,114,101,115,116,32,76,97,98,115,41>> >>,  \* "flux": "FLUX (Black Forest Labs)"
    << <<98,108,97,99,107,32,102,111,114,101,115,116,32,108,97,98,115>>,
       <<66,108,97,99,107,32,70,111,114,101,115,116,32,76,97,98,115>> >>,  \* "black forest labs": "Black Forest Labs"
    << <<98,105,110,103,32,105,109,97,103,101,32,99,114,101,97,116,111,114>>,
       <<66,105,110,103,32,73,109,97,103,101,32,67,114,101,97,116,111,114>> >>,  \* "bing image creator": "Bing Image Creator"
    << <<109,105,99,114,111,115,111,102,116,32,100,101,115,105,103,110,101,114>>,
       <<77,105,99,114,111,115,111,102,116,32,68,101,115,105,103,110,101,114>> >>,  \* "microsoft designer": "Microsoft Designer"
    << <<99,97,110,118,97,32,97,105>>,
       <<67,97,110,118,97,32,65,73>> >>,  \* "canva ai": "Canva AI"
    << <<99,97,110,118,97,32,109,97,103,105,99>>,
       <<67,97,110,118,97,32,77,97,103,105,99>> >>,  \* "canva magic": "Canva Magic"
    << <<110,105,103,104,116,99,97,102,101>>,
       <<78,105,103,104,116,67,97,102,101>> >>,  \* "nightcafe": "NightCafe"
    << <<97,114,116,98,114,101,101,100,101,114>>,
       <<65,114,116,98,114,101,101,100,101,114>> >>,  \* "artbreeder": "Artbreeder"
    << <<99,111,112,105,108,111,116,32,100,101,115,105,103,110,101,114>>,
       <<67,111,112,105,108,111,116,32,68,101,115,105,103,110,101,114>> >>,  \* "copilot designer": "Copilot Designer"
    << <<103,114,111,107>>,
       <<71,114,111,107,32,40,120,65,73,41>> >>,  \* "grok": "Grok (xAI)"
    << <<120,97,105>>,
       <<120,65,73>> >>,  \* "xai": "xAI"
    << <<103,101,109,105,110,105>>,
       <<71,111,111,103,108,101,32,71,101,109,105,110,105>> >>,  \* "gemini": "Google Gemini"
    << <<115,111,114,97>>,
       <<83,111,114,97,32,40,79,112,101,110,65,73,41>> >>,  \* "sora": "Sora (OpenAI)"
    << <<114,117,110,119,97,121>>,
       <<82,117,110,119,97,121>> >>,  \* "runway": "Runway"
    << <<114,117,110,119,97,121,109,108>>,
       <<82,117,110,119,97,121>> >>,  \* "runwayml": "Runway"
    << <<112,105,107,97>>,
       <<80,105,107,97>> >>,  \* "pika": "Pika"
    << <<107,108,105,110,103>>,
       <<75,108,105,110,103>> >>,  \* "kling": "Kling"
    << <<118,101,111>>,
       <<86,101,111,32,40,71,111,111,103,108,101,41>> >>,  \* "veo": "Veo (Google)"
    << <<108,117,109,97>>,
       <<76,117,109,97,32,68,114,101,97,109,32,77,97,99,104,105,110,101>> >>,  \* "luma": "Luma Dream Machine"
    << <<104,97,105,112,101,114>>,
       <<72,97,105,112,101,114>> >>,  \* "haiper": "Haiper"
    << <<109,105,110,105,109,97,120>>,
       <<77,105,110,105,109,97,120>> >>,  \* "minimax": "Minimax"
    << <<104,97,105,108,117,111>>,
       <<72,97,105,108,117,111,32,65,73>> >>,  \* "hailuo": "Hailuo AI"
    << <<111,97,105,100,97,108,108,101,97,112,105>>,
       <<68,65,76,76,45,69,32,40,79,112,101,110,65,73,41>> >>,  \* "oaidalleapi": "DALL-E (OpenAI)"
    << <<100,97,108,108,101>>,
       <<68,65,76,76,45,69>> >>,  \* "dalle": "DALL-E"
    << <<109,106,45,103,97,108,108,101,114,121>>,
       <<77,105,100,106,111,117,114,110,101,121>> >>,  \* "mj-gallery": "Midjourney"
    << <<114,101,112,108,105,99,97,116,101,46,100,101,108,105,118,101,114,121>>,
       <<82,101,112,108,105,99,97,116,101>> >>,  \* "replicate.delivery": "Replicate"
    << <<114,101,112,108,105,99,97,116,101,46,99,111,109>>,
       <<82,101,112,108,105,99,97,116,101>> >>,  \* "replicate.com": "Replicate"
    << <<112,105,107,97,46,97,114,116>>,
       <<80,105,107,97>> >>,  \* "pika.art": "Pika"
    << <<102,97,108,46,97,105>>,
       <<70,65,76,46,97,105>> >>,  \* "fal.ai": "FAL.ai"
    << <<116,111,103,101,116,104,101,114,46,120,121,122>>,
       <<84,111,103,101,116,104,101,114,32,65,73>> >>  \* "together.xyz": "Together AI"
  >>

\* src/lib/scanner.js:59-63
C2PA_CLAIM_CAMERA ==
  <<
    <<108,101,105,99,97>>,  \* "leica"
    <<115,111,110,121>>,  \* "sony"
    <<99,97,110,111,110>>,  \* "canon"
    <<110,105,107,111,110>>,  \* "nikon"
    <<111,109,32,115,121,115,116,101,109>>,  \* "om system"
    <<102,117,106,105,102,105,108,109>>,  \* "fujifilm"
    <<105,112,104,111,110,101>>,  \* "iphone"
    <<112,105,120,101,108>>,  \* "pixel"
    <<112,104,97,115,101,32,111,110,101>>,  \* "phase one"
    <<99,97,112,116,117,114,101,32,111,110,101>>,  \* "capture one"
    <<99,97,109,101,114,97>>,  \* "camera"
    <<112,101,110,116,97,120>>,  \* "pentax"
    <<112,97,110,97,115,111,110,105,99>>,  \* "panasonic"
    <<108,117,109,105,120>>,  \* "lumix"
    <<111,108,121,109,112,117,115>>  \* "olympus"
  >>

\* src/content.js:61-65 (adds "content authenticity" and "cai ")
content_C2PA_CLAIM_CAMERA ==
  <<
    <<108,101,105,99,97>>,  \* "leica"
    <<115,111,110,121>>,  \* "sony"
    <<99,97,110,111,110>>,  \* "canon"
    <<110,105,107,111,110>>,  \* "nikon"
    <<111,109,32,115,121,115,116,101,109>>,  \* "om system"
    <<102,117,106,105,102,105,108,109>>,  \* "fujifilm"
    <<105,112,104,111,110,101>>,  \* "iphone"
    <<112,105,120,101,108>>,  \* "pixel"
    <<99,111,110,116,101,110,116,32,97,117,116,104,101,110,116,105,99,105,116,121>>,  \* "content authenticity"
    <<99,97,105,32>>,  \* "cai "
    <<112,104,97,115,101,32,111,110,101>>,  \* "phase one"
    <<99,97,112,116,117,114,101,32,111,110,101>>,  \* "capture one"
    <<99,97,109,101,114,97>>,  \* "camera"
    <<112,101,110,116,97,120>>,  \* "pentax"
    <<112,97,110,97,115,111,110,105,99>>,  \* "panasonic"
    <<108,117,109,105,120>>,  \* "lumix"
    <<111,108,121,109,112,117,115>>  \* "olympus"
  >>

\* src/lib/scanner.js:64-69 (src/content.js:66-71 is the same list)
C2PA_CLAIM_AI ==
  <<
    <<100,97,108,108,45,101>>,  \* "dall-e"
    <<100,97,108,108,183,101>>,  \* "dall\u00B7e"
    <<102,105,114,101,102,108,121>>,  \* "firefly"
    <<109,105,100,106,111,117,114,110,101,121>>,  \* "midjourney"
    <<111,112,101,110,97,105>>,  \* "openai"
    <<115,116,97,98,105,108,105,116,121>>,  \* "stability"
    <<105,109,97,103,101,110>>,  \* "imagen"
    <<108,101,111,110,97,114,100,111>>,  \* "leonardo"
    <<105,100,101,111,103,114,97,109>>,  \* "ideogram"
    <<102,108,117,120>>,  \* "flux"
    <<109,105,99,114,111,115,111,102,116,32,100,101,115,105,103,110,101,114>>,  \* "microsoft designer"
    <<98,105,110,103>>,  \* "bing"
    <<99,97,110,118,97>>,  \* "canva"
    <<114,117,110,119,97,121>>,  \* "runway"
    <<115,111,114,97>>,  \* "sora"
    <<118,101,111>>,  \* "veo"
    <<108,117,109,97>>,  \* "luma"
    <<112,105,107,97>>,  \* "pika"
    <<107,108,105,110,103>>,  \* "kling"
    <<103,101,109,105,110,105>>,  \* "gemini"
    <<114,101,112,108,105,99,97,116,101>>,  \* "replicate"
    <<102,97,108,46,97,105>>,  \* "fal.ai"
    <<112,108,97,121,103,114,111,117,110,100>>  \* "playground"
  >>

\* src/lib/scanner.js:72-79 (src/content.js:447-454 is the same list)
AI_HOST_PATTERNS ==
  <<
    <<111,97,105,100,97,108,108,101,97,112,105>>,  \* "oaidalleapi"
    <<100,97,108,108,101>>,  \* "dalle"
    <<111,112,101,110,97,105>>,  \* "openai"
    <<109,105,100,106,111,117,114,110,101,121>>,  \* "midjourney"
    <<109,106,45,103,97,108,108,101,114,121>>,  \* "mj-gallery"
    <<114,101,112,108,105,99,97,116,101,46,100,101,108,105,118,101,114,121>>,  \* "replicate.delivery"
    <<114,101,112,108,105,99,97,116,101,46,99,111,109>>,  \* "replicate.com"
    <<115,116,97,98,105,108,105,116,121,46,97,105>>,  \* "stability.ai"
    <<115,116,97,98,108,101,100,105,102,102,117,115,105,111,110>>,  \* "stablediffusion"
    <<108,101,111,110,97,114,100,111,46,97,105>>,  \* "leonardo.ai"
    <<102,105,114,101,102,108,121>>,  \* "firefly"
    <<102,108,117,120>>,  \* "flux"
    <<102,97,108,46,97,105>>,  \* "fal.ai"
    <<116,111,103,101,116,104,101,114,46,120,121,122>>  \* "together.xyz"
  >>

\* src/content.js:469-473
aiAltPatterns ==
  <<
    <<97,105,32,103,101,110,101,114,97,116,101,100>>,  \* "ai generated"
    <<97,105,45,103,101,110,101,114,97,116,101,100>>,  \* "ai-generated"
    <<103,101,110,101,114,97,116,101,100,32,98,121,32,97,105>>,  \* "generated by ai"
    <<109,97,100,101,32,119,105,116,104,32,97,105>>,  \* "made with ai"
    <<99,114,101,97,116,101,100,32,119,105,116,104,32,97,105>>,  \* "created with ai"
    <<100,97,108,108,45,101>>,  \* "dall-e"
    <<109,105,100,106,111,117,114,110,101,121>>,  \* "midjourney"
    <<115,116,97,98,108,101,32,100,105,102,102,117,115,105,111,110>>,  \* "stable diffusion"
    <<97,105,32,105,109,97,103,101>>,  \* "ai image"
    <<97,105,32,97,114,116>>  \* "ai art"
  >>

\* src/lib/scanner.js:448-461 (src/content.js:559-572 is the same list)
llmPhrases ==
  <<
    <<105,116,39,115,32,119,111,114,116,104,32,110,111,116,105,110,103,32,116,104,97,116>>,  \* "it's worth noting that"
    <<105,116,39,115,32,105,109,112,111,114,116,97,110,116,32,116,111,32,110,111,116,101>>,  \* "it's important to note"
    <<105,116,32,105,115,32,119,111,114,116,104,32,109,101,110,116,105,111,110,105,110,103>>,  \* "it is worth mentioning"
    <<105,110,32,116,111,100,97,121,39,115,32,119,111,114,108,100>>,  \* "in today's world"
    <<105,110,32,116,104,101,32,114,97,112,105,100,108,121,32,101,118,111,108,118,105,110,103>>,  \* "in the rapidly evolving"
    <<100,105,118,101,32,105,110,116,111>>,  \* "dive into"
    <<100,105,118,101,32,100,101,101,112>>,  \* "dive deep"
    <<108,101,116,39,115,32,100,101,108,118,101>>,  \* "let's delve"
    <<100,101,108,118,101,32,105,110,116,111>>,  \* "delve into"
    <<116,104,101,32,108,97,110,100,115,99,97,112,101,32,111,102>>,  \* "the landscape of"
    <<110,97,118,105,103,97,116,105,110,103,32,116,104,101>>,  \* "navigating the"
    <<104,97,114,110,101,115,115,32,116,104,101,32,112,111,119,101,114>>,  \* "harness the power"
    <<108,101,118,101,114,97,103,101,32,116,104,101>>,  \* "leverage the"
    <<97,116,32,116,104,101,32,101,110,100,32,111,102,32,116,104,101,32,100,97,121>>,  \* "at the end of the day"
    <<105,110,32,99,111,110,99,108,117,115,105,111,110,44>>,  \* "in conclusion,"
    <<116,111,32,115,117,109,109,97,114,105,122,101,44>>,  \* "to summarize,"
    <<111,118,101,114,97,108,108,44>>,  \* "overall,"
    <<105,110,32,115,117,109,109,97,114,121,44>>,  \* "in summary,"
    <<102,117,114,116,104,101,114,109,111,114,101,44>>,  \* "furthermore,"
    <<109,111,114,101,111,118,101,114,44>>,  \* "moreover,"
    <<97,100,100,105,116,105,111,110,97,108,108,121,44>>,  \* "additionally,"
    <<105,116,39,115,32,99,114,117,99,105,97,108,32,116,111>>,  \* "it's crucial to"
    <<112,108,97,121,115,32,97,32,99,114,117,99,105,97,108,32,114,111,108,101>>,  \* "plays a crucial role"
    <<97,32,116,101,115,116,97,109,101,110,116,32,116,111>>,  \* "a testament to"
    <<116,97,112,101,115,116,114,121,32,111,102>>,  \* "tapestry of"
    <<109,117,108,116,105,102,97,99,101,116,101,100>>,  \* "multifaceted"
    <<99,111,109,112,114,101,104,101,110,115,105,118,101,32,103,117,105,100,101>>,  \* "comprehensive guide"
    <<115,116,101,112,45,98,121,45,115,116,101,112,32,103,117,105,100,101>>,  \* "step-by-step guide"
    <<117,110,108,111,99,107,32,116,104,101>>,  \* "unlock the"
    <<103,97,109,101,45,99,104,97,110,103,101,114>>,  \* "game-changer"
    <<112,97,114,97,100,105,103,109,32,115,104,105,102,116>>,  \* "paradigm shift"
    <<104,111,108,105,115,116,105,99,32,97,112,112,114,111,97,99,104>>,  \* "holistic approach"
    <<102,111,115,116,101,114,32,97,32,115,101,110,115,101,32,111,102>>,  \* "foster a sense of"
    <<101,109,98,97,114,107,32,111,110>>  \* "embark on"
  >>

(***************************************************************************)
(* JavaScript string and byte primitives the scanners use.                 *)
(***************************************************************************)

Min(a, b) == IF a < b THEN a ELSE b

Max(a, b) == IF a > b THEN a ELSE b

\* The least element of a non-empty set of integers.
Least(S) == CHOOSE m \in S : \A x \in S : m <= x

\* The greatest element of a non-empty set of integers.
Greatest(S) == 0 - Least({0 - x : x \in S})

\* An optional value: None is JavaScript's null, Some(v) a present value.
None == << >>

Some(v) == << v >>

\* TextDecoder("ascii") is the WHATWG windows-1252 decoder: bytes 0x80..0x9F
\* map to the code units below, every other byte to itself.
Windows1252High ==
  << 8364, 129, 8218, 402, 8222, 8230, 8224, 8225, 710, 8240, 352, 8249, 338,
     141, 381, 143, 144, 8216, 8217, 8220, 8221, 8226, 8211, 8212, 732, 8482,
     353, 8250, 339, 157, 382, 376 >>

Windows1252(b) == IF b >= 128 /\ b <= 159 THEN Windows1252High[b - 127] ELSE b

\* new TextDecoder("ascii").decode(bytes.subarray(0, Math.min(len, limit)))
Decode(bytes, limit) ==
  [i \in 1..Min(Len(bytes), limit) |-> Windows1252(bytes[i])] \o << >>

\* String.prototype.toLowerCase on one code unit a windows-1252 byte decodes to.
Lower(c) ==
  IF c >= 65 /\ c <= 90 THEN c + 32
  ELSE IF c >= 192 /\ c <= 222 /\ c # 215 THEN c + 32
  ELSE IF c = 352 \/ c = 338 \/ c = 381 THEN c + 1
  ELSE IF c = 376 THEN 255
  ELSE c

ToLowerCase(s) == [i \in 1..Len(s) |-> Lower(s[i])] \o << >>

\* s occurs in t at the 1-based position p.
MatchAt(t, p, s) ==
  /\ p >= 1
  /\ p + Len(s) - 1 <= Len(t)
  /\ \A j \in 1..Len(s) : t[p + j - 1] = s[j]

\* String.prototype.includes
Includes(t, s) == \E p \in 1..(Len(t) - Len(s) + 1) : MatchAt(t, p, s)

\* The first entry of the list that occurs in t (the for ... break loops over
\* a vocabulary), or None.
FirstIncluded(list, t) ==
  LET hits == {k \in 1..Len(list) : Includes(t, list[k])}
  IN  IF hits = {} THEN None ELSE Some(list[Least(hits)])

\* Array.prototype.some over a vocabulary
SomeIncluded(list, t) == \E k \in 1..Len(list) : Includes(t, list[k])

\* The regular expressions' \s and the characters String.prototype.trim
\* strips (ECMAScript WhiteSpace and LineTerminator).
Whitespace ==
  {9, 10, 11, 12, 13, 32, 160, 5760, 8232, 8233, 8239, 8287, 12288, 65279}
    \cup (8192..8202)

IsSpace(c) == c \in Whitespace

\* The characters a regular expression's "." does not match.
IsLineTerminator(c) == c \in {10, 13, 8232, 8233}

\* String.prototype.trim
Trim(s) ==
  LET keep == {i \in 1..Len(s) : ~IsSpace(s[i])}
  IN  IF keep = {} THEN << >> ELSE SubSeq(s, Least(keep), Greatest(keep))

\* The length of the longest run of characters belonging to the set S that
\* starts at position p of t, at most cap characters long.
RunWithin(t, p, cap, S) ==
  LET last  == Min(Len(t), p + cap - 1)
      stops == {i \in p..last : t[i] \notin S}
  IN  IF stops = {} THEN Max(0, last - p + 1) ELSE Least(stops) - p

\* The same for the characters outside S (a negated class).
RunWithout(t, p, cap, S) ==
  LET last  == Min(Len(t), p + cap - 1)
      stops == {i \in p..last : t[i] \in S}
  IN  IF stops = {} THEN Max(0, last - p + 1) ELSE Least(stops) - p

(***************************************************************************)
(* C2PA / JUMBF detection: detectC2PA, src/lib/scanner.js:107-141.         *)
(***************************************************************************)

\* The loop of lines 116-126: the 4-byte marker "jumb" at a 0-based offset
\* i < len - 8.
HasManifestMarker(bytes) ==
  \E i \in 0..(Len(bytes) - 9) :
     /\ bytes[i + 1] = 106
     /\ bytes[i + 2] = 117
     /\ bytes[i + 3] = 109
     /\ bytes[i + 4] = 98

\* /c2pa|c2cl|contentcredentials|content.credentials/i.test(text), on the
\* lower-cased text (the pattern's letters are ASCII, so /i is a comparison
\* of lower-cased characters).
ProvenanceKeywordTest(low) ==
  \/ Includes(low, <<99,50,112,97>>)  \* "c2pa"
  \/ Includes(low, <<99,50,99,108>>)  \* "c2cl"
  \/ Includes(low, <<99,111,110,116,101,110,116,99,114,101,100,101,110,116,105,97,108,115>>)  \* "contentcredentials"
  \/ \E p \in 1..Len(low) :
        /\ MatchAt(low, p, <<99,111,110,116,101,110,116>>)  \* "content"
        /\ p + 7 <= Len(low)
        /\ ~IsLineTerminator(low[p + 7])
        /\ MatchAt(low, p + 8, <<99,114,101,100,101,110,116,105,97,108,115>>)  \* "credentials"

\* The class ["\s:=] of the claim_generator pattern.
GeneratorSeparators == {34, 58, 61} \cup Whitespace

\* The characters the class [^"<\x00] of the claim_generator pattern excludes.
GeneratorStops == {34, 60, 0}

\* The characters the class [^"<,\x00] of the signer pattern excludes.
SignerStops == {34, 60, 44, 0}

ClaimGeneratorKey == <<99,108,97,105,109,95,103,101,110,101,114,97,116,111,114>>  \* "claim_generator"

\* The separator lengths m with which the pattern matches when its key
\* starts at p: 1..m separators, then at least 4 generator characters.
GeneratorSeparatorFits(text, low, p) ==
  IF ~MatchAt(low, p, ClaimGeneratorKey) THEN {}
  ELSE LET q == p + Len(ClaimGeneratorKey)
           k == RunWithin(text, q, Len(text), GeneratorSeparators)
       IN  {m \in 1..k : RunWithout(text, q + m, 80, GeneratorStops) >= 4}

\* text.match(/claim_generator["\s:=]+([^"<\x00]{4,80})/i): group 1 of the
\* leftmost match, both quantifiers greedy; None when nothing matches.
MatchClaimGenerator(text) ==
  LET low == ToLowerCase(text)
      at  == {p \in 1..Len(text) : GeneratorSeparatorFits(text, low, p) # {}}
  IN  IF at = {} THEN None
      ELSE LET p == Least(at)
               m == Greatest(GeneratorSeparatorFits(text, low, p))
               q == p + Len(ClaimGeneratorKey) + m
               n == RunWithout(text, q, 80, GeneratorStops)
           IN  Some(SubSeq(text, q, q + n - 1))

\* The alternatives (?:signer|issuer|CN=) of the signer pattern, lower-cased.
SignerKeys ==
  << <<115,105,103,110,101,114>>,  \* "signer"
     <<105,115,115,117,101,114>>,  \* "issuer"
     <<99,110,61>> >>              \* "cn="

\* The key alternatives that match at p with 4 signer characters after them.
SignerKeyFits(text, low, p) ==
  {k \in 1..Len(SignerKeys) :
     /\ MatchAt(low, p, SignerKeys[k])
     /\ RunWithout(text, p + Len(SignerKeys[k]), 80, SignerStops) >= 4}

\* text.match(/(?:signer|issuer|CN=)([^"<,\x00]{4,80})/i): group 1 of the
\* leftmost match; None when nothing matches.
MatchSigner(text) ==
  LET low == ToLowerCase(text)
      at  == {p \in 1..Len(text) : SignerKeyFits(text, low, p) # {}}
  IN  IF at = {} THEN None
      ELSE LET p == Least(at)
               k == Least(SignerKeyFits(text, low, p))
               q == p + Len(SignerKeys[k])
               n == RunWithout(text, q, 80, SignerStops)
           IN  Some(SubSeq(text, q, q + n - 1))

\* group 1 trimmed, as lines 134 and 137 store it
TrimmedMatch(m) == IF m = None THEN None ELSE Some(Trim(m[1]))

\* Line 110: the info object of a call.
NewInfo ==
  [ found |-> FALSE, decodedText |-> None, claimGenerator |-> None, signer |-> None ]

\* A call that goes on with the info object the call before it returned.
InfoFromLastCall(history) ==
  IF history = << >> THEN NewInfo ELSE history[Len(history)].info

\* The info object a call starts from, whatever the calls before it
\* returned: line 110 creates it inside the function.
InfoAtEntry(history) == NewInfo

\* Lines 112-140 on an info object: found is set by the marker loop and by
\* the keyword test, and a field is assigned only where its pattern matches.
DetectInto(info, buffer) ==
  LET text      == Decode(buffer, 200000)
      found     == \/ info.found
                   \/ HasManifestMarker(buffer)
                   \/ ProvenanceKeywordTest(ToLowerCase(text))
      generator == TrimmedMatch(MatchClaimGenerator(text))
      signer    == TrimmedMatch(MatchSigner(text))
  IN  IF ~found THEN info
      ELSE [ found          |-> TRUE,
             decodedText    |-> Some(text),
             claimGenerator |-> IF generator # None THEN generator ELSE info.claimGenerator,
             signer         |-> IF signer # None THEN signer ELSE info.signer ]

detectC2PA(buffer) == DetectInto(InfoAtEntry(<< >>), buffer)

\* detectC2PA of the extension, src/content.js:136-169: the same detection,
\* without the decodedText field.
content_detectC2PA(buffer) ==
  LET text  == Decode(buffer, 200000)
      found == HasManifestMarker(buffer) \/ ProvenanceKeywordTest(ToLowerCase(text))
  IN  [ found          |-> found,
        claimGenerator |-> IF found THEN TrimmedMatch(MatchClaimGenerator(text)) ELSE None,
        signer         |-> IF found THEN TrimmedMatch(MatchSigner(text)) ELSE None ]

(***************************************************************************)
(* EXIF / XMP / IPTC: parseMetadata, src/lib/scanner.js:147-223.           *)
(***************************************************************************)

\* extractAsciiStrings, lines 85-101: the runs of printable bytes
\* (0x20..0x7e) of length >= 4, in order; i is the next 1-based index and
\* current the run read so far.
RECURSIVE AsciiRuns(_, _, _)
AsciiRuns(bytes, i, current) ==
  LET flushed == IF Len(current) >= 4 THEN << current >> ELSE << >>
  IN  IF i > Len(bytes) THEN flushed
      ELSE IF bytes[i] >= 32 /\ bytes[i] <= 126
           THEN AsciiRuns(bytes, i + 1, Append(current, bytes[i]))
           ELSE flushed \o AsciiRuns(bytes, i + 1, << >>)

extractAsciiStrings(buffer) == AsciiRuns(buffer, 1, << >>)

\* strings.join(" ")
RECURSIVE JoinWithSpace(_)
JoinWithSpace(strings) ==
  IF strings = << >> THEN << >>
  ELSE IF Len(strings) = 1 THEN strings[1]
  ELSE strings[1] \o << 32 >> \o JoinWithSpace(Tail(strings))

\* bytes[i] for a 0-based index, undefined (-1 here) past the end.
ByteAt(bytes, i) == IF i >= 0 /\ i < Len(bytes) THEN bytes[i + 1] ELSE -1

\* (bytes[i + 2] << 8) | bytes[i + 3], an undefined operand counting as 0.
SegmentLength(bytes, i) ==
  Max(0, ByteAt(bytes, i + 2)) * 256 + Max(0, ByteAt(bytes, i + 3))

\* buffer.slice(begin, end) for 0-based 0 <= begin <= end
Slice(bytes, begin, end) ==
  SubSeq(bytes, Min(begin, Len(bytes)) + 1, Min(end, Len(bytes)))

\* The 0-based offsets i < min(len, 100) of an APP1 marker 0xff 0xe1.
App1Offsets(bytes) ==
  {i \in 0..(Min(Len(bytes), 100) - 1) :
     ByteAt(bytes, i) = 255 /\ ByteAt(bytes, i + 1) = 225}

\* The printable runs of the first APP1 segment (lines 157-162), or None
\* when the first 100 bytes hold no marker.
FirstSegmentStrings(bytes) ==
  IF App1Offsets(bytes) = {} THEN None
  ELSE LET i == Least(App1Offsets(bytes))
       IN  Some(extractAsciiStrings(
                  Slice(bytes, i + 4, i + 4 + SegmentLength(bytes, i))))

XmpOpenTag == <<60,120,58,120,109,112,109,101,116,97>>  \* "<x:xmpmeta"

XmpCloseTag == <<60,47,120,58,120,109,112,109,101,116,97,62>>  \* "</x:xmpmeta>"

\* The positions at which a closing tag ends a packet opened at p: at most
\* 50,000 characters between the tags.
XmpCloseFits(low, p) ==
  IF ~MatchAt(low, p, XmpOpenTag) THEN {}
  ELSE {c \in (p + Len(XmpOpenTag))..Min(Len(low), p + Len(XmpOpenTag) + 50000) :
          MatchAt(low, c, XmpCloseTag)}

\* fullText.match(/<x:xmpmeta[\s\S]{0,50000}<\/x:xmpmeta>/i): the leftmost
\* match, its middle part greedy; None when nothing matches.
MatchXmp(fullText) ==
  LET low == ToLowerCase(fullText)
      at  == {p \in 1..Len(low) : XmpCloseFits(low, p) # {}}
  IN  IF at = {} THEN None
      ELSE LET p == Least(at)
               c == Greatest(XmpCloseFits(low, p))
           IN  Some(SubSeq(fullText, p, c + Len(XmpCloseTag) - 1))

DigitalSourceTypeKey == <<100,105,103,105,116,97,108,115,111,117,114,99,101,116,121,112,101>>  \* "digitalsourcetype"

TrainedValue == <<116,114,97,105,110,101,100,97,108,103,111,114,105,116,104,109,105,99,109,101,100,105,97>>  \* "trainedalgorithmicmedia"

CompositeValue == <<99,111,109,112,111,115,105,116,101,119,105,116,104,116,114,97,105,110,101,100,97,108,103,111,114,105,116,104,109,105,99,109,101,100,105,97>>  \* "compositewithtrainedalgorithmicmedia"

\* /digitalsourcetype.*<value>/i.test(xmp), on the lower-cased packet: the
\* key, then the value later on the same line.
DigitalSourceTypeTest(low, value) ==
  \E a \in 1..Len(low) :
     /\ MatchAt(low, a, DigitalSourceTypeKey)
     /\ \E b \in (a + Len(DigitalSourceTypeKey))..Len(low) :
           /\ MatchAt(low, b, value)
           /\ \A i \in (a + Len(DigitalSourceTypeKey))..(b - 1) :
                 ~IsLineTerminator(low[i])

\* Lines 197-202: the second test overwrites the first.
IptcDigitalSource(xmp) ==
  LET low == ToLowerCase(xmp)
  IN  IF DigitalSourceTypeTest(low, CompositeValue)
        THEN "compositeWithTrainedAlgorithmicMedia"
      ELSE IF DigitalSourceTypeTest(low, TrainedValue)
        THEN "trainedAlgorithmicMedia"
      ELSE ""

\* The tool names of lines 230-231.
EditorNames ==
  << <<97,100,111,98,101>>,  \* "adobe"
     <<112,104,111,116,111,115,104,111,112>>,  \* "photoshop"
     <<103,105,109,112>>,  \* "gimp"
     <<108,105,103,104,116,114,111,111,109>> >>  \* "lightroom"

ModelWord == <<109,111,100,101,108>>  \* "model"

\* /(\d{4}:\d{2}:\d{2} \d{2}:\d{2}:\d{2})/ character by character: 0 stands
\* for a digit, any other entry for itself.
DateTimeShape == <<0,0,0,0,58,0,0,58,0,0,32,0,0,58,0,0,58,0,0>>

DateTimeAt(s, p) ==
  /\ p + Len(DateTimeShape) - 1 <= Len(s)
  /\ \A j \in 1..Len(DateTimeShape) :
       IF DateTimeShape[j] = 0 THEN s[p + j - 1] \in 48..57
       ELSE s[p + j - 1] = DateTimeShape[j]

\* s.match(...)[1]: the leftmost date in s, or None.
MatchDateTime(s) ==
  LET at == {p \in 1..Len(s) : DateTimeAt(s, p)}
  IN  IF at = {} THEN None
      ELSE Some(SubSeq(s, Least(at), Least(at) + Len(DateTimeShape) - 1))

ExifKeys == {"Software", "DateTime", "Camera Model"}

\* exifFields before any extractor has written to it (line 153).
NoExifFields == [k \in ExifKeys |-> None]

\* extractExifTagsFromStrings, lines 225-244, on an empty fields object: each
\* key keeps the first truthy value written to it.  A Camera Model that
\* trims to the empty string leaves the key falsy, so a later string
\* overwrites it.
extractExifTagsFromStrings(strings) ==
  LET edited == {i \in 1..Len(strings) :
                   SomeIncluded(EditorNames, ToLowerCase(strings[i]))}
      dated  == {i \in 1..Len(strings) : MatchDateTime(strings[i]) # None}
      after  == {i \in 2..Len(strings) :
                   Includes(ToLowerCase(strings[i - 1]), ModelWord)}
      named  == {i \in after : Trim(strings[i]) # << >>}
  IN  [k \in ExifKeys |->
         IF k = "Software"
         THEN IF edited = {} THEN None ELSE Some(Trim(strings[Least(edited)]))
         ELSE IF k = "DateTime"
         THEN IF dated = {} THEN None ELSE MatchDateTime(strings[Least(dated)])
         ELSE IF after = {} THEN None
         ELSE IF named = {} THEN Some(<< >>)
         ELSE Some(Trim(strings[Least(named)]))]

\* A variant of parseMetadata that consults the XMP packet before the
\* segment.
ParseMetadataXmpFirst(signatures, buffer) ==
  LET seg      == FirstSegmentStrings(buffer)
      fullText == Decode(buffer, 300000)
      xmp      == MatchXmp(fullText)
      inSeg    == IF seg = None THEN None
                  ELSE FirstIncluded(signatures, ToLowerCase(JoinWithSpace(seg[1])))
      inXmp    == IF xmp = None THEN None
                  ELSE FirstIncluded(signatures, ToLowerCase(xmp[1]))
      inFull   == FirstIncluded(signatures, ToLowerCase(fullText))
      sig      == IF inXmp # None THEN inXmp[1]
                  ELSE IF inSeg # None THEN inSeg[1]
                  ELSE IF inFull # None THEN inFull[1]
                  ELSE << >>
  IN  [ software          |-> sig,
        aiSignature       |-> sig,
        iptcDigitalSource |-> IF xmp = None THEN "" ELSE IptcDigitalSource(xmp[1]),
        exifFields        |-> IF seg = None THEN NoExifFields
                              ELSE extractExifTagsFromStrings(seg[1]) ]

\* parseMetadata with the signature vocabulary as a parameter: the AI
\* signature is looked for in the first APP1 segment's joined strings, then
\* in the XMP packet, then in the whole decoded prefix (lines 164-169,
\* 188-195, 208-216); an unset field is the empty string.  Of exifFields
\* the keys written from the segment are kept (line 171); the keys
\* extractXmpFields adds at line 204 have other names and are left out.
ParseMetadataWith(signatures, buffer) ==
  LET seg      == FirstSegmentStrings(buffer)
      fullText == Decode(buffer, 300000)
      xmp      == MatchXmp(fullText)
      inSeg    == IF seg = None THEN None
                  ELSE FirstIncluded(signatures, ToLowerCase(JoinWithSpace(seg[1])))
      inXmp    == IF xmp = None THEN None
                  ELSE FirstIncluded(signatures, ToLowerCase(xmp[1]))
      inFull   == FirstIncluded(signatures, ToLowerCase(fullText))
      sig      == IF inSeg # None THEN inSeg[1]
                  ELSE IF inXmp # None THEN inXmp[1]
                  ELSE IF inFull # None THEN inFull[1]
                  ELSE << >>
  IN  [ software          |-> sig,
        aiSignature       |-> sig,
        iptcDigitalSource |-> IF xmp = None THEN "" ELSE IptcDigitalSource(xmp[1]),
        exifFields        |-> IF seg = None THEN NoExifFields
                              ELSE extractExifTagsFromStrings(seg[1]) ]

parseMetadata(buffer) == ParseMetadataWith(AI_SOFTWARE_SIGNATURES, buffer)

\* parseMetadata of the extension, src/content.js:171-247: the same code
\* over the extension's signature list.
content_parseMetadata(buffer) ==
  ParseMetadataWith(content_AI_SOFTWARE_SIGNATURES, buffer)

(***************************************************************************)
(* Confidence: calculateImageConfidence, src/lib/scanner.js:284-296        *)
(* (src/content.js:308-320 is the same function).                          *)
(***************************************************************************)

SignalNames == {"c2pa", "exifSignature", "iptc", "synthid", "urlPattern", "altText"}

\* The weights pushed at lines 286-291, in percent, in push order.
SignalWeights ==
  << << "c2pa", 95 >>, << "exifSignature", 90 >>, << "iptc", 92 >>,
     << "synthid", 90 >>, << "urlPattern", 65 >>, << "altText", 55 >> >>

NoSignals == [s \in SignalNames |-> FALSE]

RECURSIVE Gcd(_, _)
Gcd(a, b) == IF b = 0 THEN a ELSE Gcd(b, a % b)

\* The fraction num / den in lowest terms.
Reduced(num, den) ==
  LET g == Gcd(num, den) IN [num |-> num \div g, den |-> den \div g]

\* weights.reduce((acc, w) => acc * (1 - w), 1) over the present signals
\* from the k-th on, as an exact fraction in lowest terms, with the number
\* of weights pushed.
RECURSIVE MissProduct(_, _)
MissProduct(signals, k) ==
  IF k > Len(SignalWeights) THEN [num |-> 1, den |-> 1, count |-> 0]
  ELSE LET rest == MissProduct(signals, k + 1)
           f    == Reduced((100 - SignalWeights[k][2]) * rest.num, 100 * rest.den)
       IN  IF signals[SignalWeights[k][1]]
           THEN [num |-> f.num, den |-> f.den, count |-> rest.count + 1]
           ELSE rest

\* Math.round(100 * (1 - num / den)) for 0 <= num <= den: halves round up.
RoundedPercent(num, den) ==
  LET q   == (100 * num) \div den
      rem == (100 * num) % den
  IN  100 - q - (IF 2 * rem > den THEN 1 ELSE 0)

\* The noisy-OR without the floor for an empty list of weights.
ConfidenceWithoutFloor(signals) ==
  LET miss == MissProduct(signals, 1)
  IN  Min(99, RoundedPercent(miss.num, miss.den))

\* The noisy-OR with the percentage wrapped at 100 where the source caps it at 99.
ConfidenceWrapped(signals) ==
  LET miss == MissProduct(signals, 1)
  IN  IF miss.count = 0 THEN 5
      ELSE RoundedPercent(miss.num, miss.den) % 100

\* Math.min(99, Math.round(combined * 100)), or 5 with no weight.  The
\* arithmetic is exact here; on all 64 signal sets it agrees with the
\* double-precision arithmetic of the source.
calculateImageConfidence(signals) ==
  LET miss == MissProduct(signals, 1)
  IN  IF miss.count = 0 THEN 5
      ELSE Min(99, RoundedPercent(miss.num, miss.den))

\* getSourceName, src/lib/scanner.js:305-308: the display name of a
\* signature, the signature itself when the table has none.
SourceNameIn(names, signature) ==
  LET key  == ToLowerCase(signature)
      hits == {k \in 1..Len(names) : names[k][1] = key}
  IN  IF hits = {} THEN signature ELSE names[Least(hits)][2]

getSourceName(signature) == SourceNameIn(AI_SOURCE_NAMES, signature)

\* getSourceName of the extension, src/content.js:338-341.
content_getSourceName(signature) == SourceNameIn(content_AI_SOURCE_NAMES, signature)

\* escapeHtml, src/content.js:871-875: the innerHTML of a text node, which
\* escapes "&", "<", ">" and the no-break space.
RECURSIVE escapeHtml(_)
escapeHtml(str) ==
  IF str = << >> THEN << >>
  ELSE (CASE str[1] = 38  -> <<38,97,109,112,59>>        \* "&amp;"
          [] str[1] = 60  -> <<38,108,116,59>>           \* "&lt;"
          [] str[1] = 62  -> <<38,103,116,59>>           \* "&gt;"
          [] str[1] = 160 -> <<38,110,98,115,112,59>>    \* "&nbsp;"
          [] OTHER        -> << str[1] >>)
       \o escapeHtml(Tail(str))

(***************************************************************************)
(* Image scanning: scanBuffer, src/lib/scanner.js:320-436.                 *)
(*                                                                         *)
(* A result in the making is a record of the signals, the verdict, the     *)
(* source (None for null), the reasons and the fingerprint.  A reason is   *)
(* the pair of its fixed text and the string spliced into it.  The exif    *)
(* field map does not feed the verdict and is not part of the record.      *)
(***************************************************************************)

Reason(text, arg) == << text, arg >>

\* result.source = result.source || value
SourceOr(source, value) ==
  IF source # None /\ source[1] # << >> THEN source
  ELSE IF value = << >> THEN source ELSE Some(value)

NoFingerprint ==
  [ c2pa |-> FALSE, claimGenerator |-> None, signer |-> None, software |-> None,
    iptcDigitalSource |-> "", synthid |-> FALSE, urlPattern |-> None ]

\* Lines 321-330.
NewResult ==
  [ signals |-> NoSignals, verdict |-> "no_metadata", confidence |-> 0,
    source |-> None, reasons |-> << >>, fingerprint |-> NoFingerprint ]

\* The classification with the camera list tested first, the order of
\* src/content.js:386-408.
ClassifyGeneratorCameraFirst(r, generator) ==
  LET genLower == ToLowerCase(generator)
      isCamera == SomeIncluded(C2PA_CLAIM_CAMERA, genLower)
      isAi     == SomeIncluded(C2PA_CLAIM_AI, genLower)
      named    == [r EXCEPT !.fingerprint.claimGenerator = Some(generator)]
  IN  IF isCamera THEN
        [ classified |-> TRUE,
          r |-> [named EXCEPT
                   !.reasons = Append(@, Reason("C2PA Content Credentials from capture device (camera/phone) - not AI-generated.", << >>)),
                   !.verdict = "likely_real",
                   !.source = SourceOr(@, generator)] ]
      ELSE IF isAi THEN
        [ classified |-> TRUE,
          r |-> [named EXCEPT
                   !.signals.c2pa = TRUE,
                   !.verdict = "ai_detected",
                   !.reasons = Append(@, Reason("C2PA Content Credentials found - provenance from an AI tool.", << >>)),
                   !.source = SourceOr(@, generator)] ]
      ELSE [classified |-> FALSE, r |-> named]

\* Lines 337-354: the claim generator against the two vocabularies, the AI
\* list first.  The record says whether the generator was classified.
ClassifyGenerator(r, generator) ==
  LET genLower == ToLowerCase(generator)
      isCamera == SomeIncluded(C2PA_CLAIM_CAMERA, genLower)
      isAi     == SomeIncluded(C2PA_CLAIM_AI, genLower)
      named    == [r EXCEPT !.fingerprint.claimGenerator = Some(generator)]
  IN  IF isAi THEN
        [ classified |-> TRUE,
          r |-> [named EXCEPT
                   !.signals.c2pa = TRUE,
                   !.verdict = "ai_detected",
                   !.reasons = Append(@, Reason("C2PA Content Credentials found - provenance from an AI tool.", << >>)),
                   !.source = SourceOr(@, generator)] ]
      ELSE IF isCamera THEN
        [ classified |-> TRUE,
          r |-> [named EXCEPT
                   !.reasons = Append(@, Reason("C2PA Content Credentials from capture device (camera/phone) - not AI-generated.", << >>)),
                   !.verdict = "likely_real",
                   !.source = SourceOr(@, generator)] ]
      ELSE [classified |-> FALSE, r |-> named]

\* Lines 355-367: the AI vocabulary against the whole decoded manifest text.
ManifestTextStep(r, decodedText) ==
  LET ai == FirstIncluded(C2PA_CLAIM_AI, ToLowerCase(decodedText))
  IN  IF ai = None THEN [classified |-> FALSE, r |-> r]
      ELSE [ classified |-> TRUE,
             r |-> [r EXCEPT
                      !.signals.c2pa = TRUE,
                      !.verdict = "ai_detected",
                      !.reasons = Append(@, Reason("C2PA Content Credentials found - AI tool name in manifest.", << >>)),
                      !.source = SourceOr(@, ai[1])] ]

\* A present, non-empty string: the truthiness tests of the source.
Truthy(opt) == opt # None /\ opt[1] # << >>

\* The unclassified step with the manifest counted as a c2pa signal.
UnclassifiedStepCounted(r, c2pa) ==
  [r EXCEPT
     !.signals.c2pa = TRUE,
     !.reasons = Append(@,
        IF Truthy(c2pa.claimGenerator)
        THEN Reason("C2PA Content Credentials present; source unknown (not classified as AI).", << >>)
        ELSE Reason("C2PA Content Credentials present; no claim generator (not classified as AI).", << >>)),
     !.verdict = "uncertain",
     !.source = IF Truthy(c2pa.claimGenerator)
                THEN SourceOr(@, c2pa.claimGenerator[1]) ELSE @]

\* Lines 368-376: a manifest that names neither an AI tool nor a capture
\* device leaves the verdict uncertain and sets no signal.
UnclassifiedStep(r, c2pa) ==
  [r EXCEPT
     !.reasons = Append(@,
        IF Truthy(c2pa.claimGenerator)
        THEN Reason("C2PA Content Credentials present; source unknown (not classified as AI).", << >>)
        ELSE Reason("C2PA Content Credentials present; no claim generator (not classified as AI).", << >>)),
     !.verdict = "uncertain",
     !.source = IF Truthy(c2pa.claimGenerator)
                THEN SourceOr(@, c2pa.claimGenerator[1]) ELSE @]

\* Step 1, lines 333-378.
C2paStep(r, c2pa) ==
  IF ~c2pa.found THEN r
  ELSE LET r0 == [r EXCEPT !.fingerprint.c2pa = TRUE]
           g  == IF Truthy(c2pa.claimGenerator)
                 THEN ClassifyGenerator(r0, c2pa.claimGenerator[1])
                 ELSE [classified |-> FALSE, r |-> r0]
           m  == IF ~g.classified /\ Truthy(c2pa.decodedText)
                 THEN ManifestTextStep(g.r, c2pa.decodedText[1])
                 ELSE g
           u  == IF ~m.classified THEN UnclassifiedStep(m.r, c2pa) ELSE m.r
       IN  IF Truthy(c2pa.signer)
           THEN [u EXCEPT !.fingerprint.signer = c2pa.signer] ELSE u

\* The signature step raising the verdict only where no capture device was
\* credited.
SignatureStepKeepingCamera(r, meta) ==
  IF meta.software = << >> THEN r
  ELSE LET displayName == getSourceName(meta.software)
       IN  [r EXCEPT
              !.signals.exifSignature = TRUE,
              !.verdict = IF @ = "likely_real" THEN @ ELSE "ai_detected",
              !.reasons = Append(@, Reason("AI tool signature in metadata", displayName)),
              !.fingerprint.software = Some(meta.software),
              !.source = SourceOr(@, displayName)]

\* A variant of step 2 that overwrites the source (line 390 without its
\* "result.source ||").
SignatureStepReplacingSource(r, meta) ==
  IF meta.software = << >> THEN r
  ELSE LET displayName == getSourceName(meta.software)
       IN  [r EXCEPT
              !.signals.exifSignature = TRUE,
              !.verdict = "ai_detected",
              !.reasons = Append(@, Reason("AI tool signature in metadata", displayName)),
              !.fingerprint.software = Some(meta.software),
              !.source = Some(displayName)]

\* A variant of step 2 that sets the verdict only when no earlier step did.
SignatureStepUpgradingOnly(r, meta) ==
  IF meta.software = << >> THEN r
  ELSE LET displayName == getSourceName(meta.software)
       IN  [r EXCEPT
              !.signals.exifSignature = TRUE,
              !.verdict = IF @ = "no_metadata" THEN "ai_detected" ELSE @,
              !.reasons = Append(@, Reason("AI tool signature in metadata", displayName)),
              !.fingerprint.software = Some(meta.software),
              !.source = SourceOr(@, displayName)]

\* Step 2, lines 384-392: an AI tool signature in the metadata.
SignatureStep(r, meta) ==
  IF meta.software = << >> THEN r
  ELSE LET displayName == getSourceName(meta.software)
       IN  [r EXCEPT
              !.signals.exifSignature = TRUE,
              !.verdict = "ai_detected",
              !.reasons = Append(@, Reason("AI tool signature in metadata", displayName)),
              !.fingerprint.software = Some(meta.software),
              !.source = SourceOr(@, displayName)]

\* Lines 394-399: the IPTC digital source type.
IptcStep(r, meta) ==
  IF meta.iptcDigitalSource = "" THEN r
  ELSE [r EXCEPT
          !.signals.iptc = TRUE,
          !.verdict = "ai_detected",
          !.reasons = Append(@, Reason("IPTC DigitalSourceType", meta.iptcDigitalSource)),
          !.fingerprint.iptcDigitalSource = meta.iptcDigitalSource]

\* /synthid/i.test(textScan) over the first 200,000 bytes, lines 402-405.
SynthIdTest(buffer) ==
  Includes(ToLowerCase(Decode(buffer, 200000)), <<115,121,110,116,104,105,100>>)  \* "synthid"

\* Step 3, lines 405-411.
SynthIdStep(r, mentioned) ==
  IF ~mentioned THEN r
  ELSE [r EXCEPT
          !.signals.synthid = TRUE,
          !.verdict = "ai_detected",
          !.reasons = Append(@, Reason("Google SynthID marker reference found in metadata.", << >>)),
          !.fingerprint.synthid = TRUE,
          !.source = SourceOr(@, <<71,111,111,103,108,101,32,40,83,121,110,116,104,73,68,41>>)]  \* "Google (SynthID)"

\* The URL step setting likely_ai without the test of line 419.
UrlStepUnguarded(r, url) ==
  LET pattern == IF Truthy(url)
                 THEN FirstIncluded(AI_HOST_PATTERNS, ToLowerCase(url[1])) ELSE None
  IN  IF pattern = None THEN r
      ELSE [r EXCEPT
              !.signals.urlPattern = TRUE,
              !.verdict = "likely_ai",
              !.reasons = Append(@, Reason("Image URL contains AI service pattern", pattern[1])),
              !.fingerprint.urlPattern = pattern,
              !.source = SourceOr(@, getSourceName(pattern[1]))]

\* A variant of step 4 that keeps the last pattern of the list the URL
\* contains (the loop of lines 416-425 without its break).
UrlStepLastPattern(r, url) ==
  LET hits == IF Truthy(url)
              THEN {k \in 1..Len(AI_HOST_PATTERNS) :
                      Includes(ToLowerCase(url[1]), AI_HOST_PATTERNS[k])}
              ELSE {}
      pattern == AI_HOST_PATTERNS[Greatest(hits)]
  IN  IF hits = {} THEN r
      ELSE [r EXCEPT
              !.signals.urlPattern = TRUE,
              !.verdict = IF @ = "no_metadata" THEN "likely_ai" ELSE @,
              !.reasons = Append(@, Reason("Image URL contains AI service pattern", pattern)),
              !.fingerprint.urlPattern = Some(pattern),
              !.source = SourceOr(@, getSourceName(pattern))]

\* Step 4, lines 414-426: the first host pattern the URL contains; url is
\* None for an upload.
UrlStep(r, url) ==
  LET pattern == IF Truthy(url)
                 THEN FirstIncluded(AI_HOST_PATTERNS, ToLowerCase(url[1])) ELSE None
  IN  IF pattern = None THEN r
      ELSE [r EXCEPT
              !.signals.urlPattern = TRUE,
              !.verdict = IF @ = "no_metadata" THEN "likely_ai" ELSE @,
              !.reasons = Append(@, Reason("Image URL contains AI service pattern", pattern[1])),
              !.fingerprint.urlPattern = pattern,
              !.source = SourceOr(@, getSourceName(pattern[1]))]

\* Step 5, lines 429-433: the confidence and the default reason.
FinishStep(r) ==
  [r EXCEPT
     !.confidence = calculateImageConfidence(r.signals),
     !.reasons = IF Len(@) = 0
                 THEN Append(@, Reason("No AI signals detected in metadata.", << >>))
                 ELSE @]

\* scanBuffer with the detector outputs, the source the provenance step
\* left, and the verdict after each step.
ScanBufferRun(buffer, url) ==
  LET c2pa      == detectC2PA(buffer)
      meta      == parseMetadata(buffer)
      synthid   == SynthIdTest(buffer)
      afterC2pa == C2paStep(NewResult, c2pa)
      afterSig  == SignatureStep(afterC2pa, meta)
      afterIptc == IptcStep(afterSig, meta)
      afterSynthId == SynthIdStep(afterIptc, synthid)
      afterUrl  == UrlStep(afterSynthId, url)
  IN  [ c2pa |-> c2pa, meta |-> meta, synthid |-> synthid,
        provenanceSource |-> afterC2pa.source,
        verdicts |-> << afterC2pa.verdict, afterSig.verdict, afterIptc.verdict,
                        afterSynthId.verdict, afterUrl.verdict >>,
        result |-> FinishStep(afterUrl) ]

scanBuffer(buffer, url) == ScanBufferRun(buffer, url).result

(***************************************************************************)
(* The extension's image scan: scanImageUrl, src/content.js:357-486.       *)
(***************************************************************************)

\* Lines 386-408: the claim generator against the extension's vocabularies,
\* the camera list first; no search of the manifest text.
content_C2paStep(r, c2pa) ==
  IF ~c2pa.found THEN r
  ELSE LET r0 == [r EXCEPT !.fingerprint.c2pa = TRUE]
           u  == IF Truthy(c2pa.claimGenerator) THEN
                   LET generator == c2pa.claimGenerator[1]
                       genLower  == ToLowerCase(generator)
                       isCamera  == SomeIncluded(content_C2PA_CLAIM_CAMERA, genLower)
                       isAi      == SomeIncluded(C2PA_CLAIM_AI, genLower)
                       named     == [r0 EXCEPT !.fingerprint.claimGenerator = Some(generator)]
                   IN  IF isCamera THEN
                         [named EXCEPT
                            !.reasons = Append(@, Reason("C2PA Content Credentials from capture device (camera/phone) - not AI-generated.", << >>)),
                            !.verdict = "likely_real",
                            !.source = SourceOr(@, generator)]
                       ELSE IF isAi THEN
                         [named EXCEPT
                            !.signals.c2pa = TRUE,
                            !.verdict = "ai_detected",
                            !.reasons = Append(@, Reason("C2PA Content Credentials found - provenance from an AI tool.", << >>)),
                            !.source = SourceOr(@, generator)]
                       ELSE
                         [named EXCEPT
                            !.reasons = Append(@, Reason("C2PA Content Credentials present; source unknown (not classified as AI).", << >>)),
                            !.verdict = "uncertain",
                            !.source = SourceOr(@, generator)]
                 ELSE
                   [r0 EXCEPT
                      !.reasons = Append(@, Reason("C2PA Content Credentials present; no claim generator (not classified as AI).", << >>)),
                      !.verdict = "uncertain"]
       IN  IF Truthy(c2pa.signer)
           THEN [u EXCEPT !.fingerprint.signer = c2pa.signer] ELSE u

\* Lines 416-424.
content_SignatureStep(r, meta) ==
  IF meta.software = << >> THEN r
  ELSE LET displayName == content_getSourceName(meta.software)
       IN  [r EXCEPT
              !.signals.exifSignature = TRUE,
              !.verdict = "ai_detected",
              !.reasons = Append(@, Reason("AI tool signature in metadata", escapeHtml(displayName))),
              !.fingerprint.software = Some(meta.software),
              !.source = SourceOr(@, displayName)]

\* Lines 426-431; the two source-type values hold nothing escapeHtml changes.
content_IptcStep(r, meta) ==
  IF meta.iptcDigitalSource = "" THEN r
  ELSE [r EXCEPT
          !.signals.iptc = TRUE,
          !.verdict = "ai_detected",
          !.reasons = Append(@, Reason("IPTC DigitalSourceType", meta.iptcDigitalSource)),
          !.fingerprint.iptcDigitalSource = meta.iptcDigitalSource]

\* Lines 437-443.
content_SynthIdStep(r, mentioned) ==
  IF ~mentioned THEN r
  ELSE [r EXCEPT
          !.signals.synthid = TRUE,
          !.verdict = "ai_detected",
          !.reasons = Append(@, Reason("Google SynthID marker reference found in metadata.", << >>)),
          !.fingerprint.synthid = TRUE,
          !.source = SourceOr(@, <<71,111,111,103,108,101,32,40,83,121,110,116,104,73,68,41>>)]  \* "Google (SynthID)"

\* Lines 446-464: src is always a string here.
content_UrlStep(r, src) ==
  LET pattern == FirstIncluded(AI_HOST_PATTERNS, ToLowerCase(src))
  IN  IF pattern = None THEN r
      ELSE [r EXCEPT
              !.signals.urlPattern = TRUE,
              !.verdict = IF @ = "no_metadata" THEN "likely_ai" ELSE @,
              !.reasons = Append(@, Reason("Image URL contains AI service pattern", escapeHtml(pattern[1]))),
              !.fingerprint.urlPattern = pattern,
              !.source = SourceOr(@, content_getSourceName(pattern[1]))]

\* Lines 467-482: imgElement is None (a URL scan) or Some of the record of
\* the element's alt and title attributes.
content_AltTextStep(r, imgElement) ==
  IF imgElement = None THEN r
  ELSE LET altText == ToLowerCase(imgElement[1].alt \o << 32 >> \o imgElement[1].title)
           pattern == FirstIncluded(aiAltPatterns, altText)
       IN  IF pattern = None THEN r
           ELSE [r EXCEPT
                   !.signals.altText = TRUE,
                   !.verdict = IF @ = "no_metadata" THEN "likely_ai" ELSE @,
                   !.reasons = Append(@, Reason("Alt/title text mentions AI", escapeHtml(pattern[1])))]

\* Lines 372-377: fetchImageBytes gave no buffer.
content_FetchFailed ==
  [NewResult EXCEPT
     !.reasons = Append(@, Reason("Could not fetch image data (CORS blocked).", << >>))]

\* scanImageUrl once the bytes are fetched (lines 379-485), with the
\* detector outputs and the verdict after each step.
ScanImageUrlRun(buffer, src, imgElement) ==
  LET c2pa      == content_detectC2PA(buffer)
      meta      == content_parseMetadata(buffer)
      synthid   == SynthIdTest(buffer)
      afterC2pa == content_C2paStep(NewResult, c2pa)
      afterSig  == content_SignatureStep(afterC2pa, meta)
      afterIptc == content_IptcStep(afterSig, meta)
      afterSynthId == content_SynthIdStep(afterIptc, synthid)
      afterUrl  == content_UrlStep(afterSynthId, src)
      afterAlt  == content_AltTextStep(afterUrl, imgElement)
  IN  [ c2pa |-> c2pa, meta |-> meta, synthid |-> synthid,
        verdicts |-> << afterC2pa.verdict, afterSig.verdict, afterIptc.verdict,
                        afterSynthId.verdict, afterUrl.verdict, afterAlt.verdict >>,
        result |-> [afterAlt EXCEPT !.confidence = calculateImageConfidence(afterAlt.signals)] ]

(***************************************************************************)
(* The text heuristics: scanTextBlock, src/lib/scanner.js:442-557 (the     *)
(* extension's copy, src/content.js:553-670, is the same code), and        *)
(* calculateTextConfidence, src/lib/scanner.js:298-303.                    *)
(***************************************************************************)

\* The alternatives of the transition-word pattern, src/lib/scanner.js:511-515
\* (src/content.js:622-626 is the same pattern)
transitionWords ==
  <<
    <<104,111,119,101,118,101,114>>,  \* "however"
    <<116,104,101,114,101,102,111,114,101>>,  \* "therefore"
    <<102,117,114,116,104,101,114,109,111,114,101>>,  \* "furthermore"
    <<109,111,114,101,111,118,101,114>>,  \* "moreover"
    <<97,100,100,105,116,105,111,110,97,108,108,121>>,  \* "additionally"
    <<99,111,110,115,101,113,117,101,110,116,108,121>>,  \* "consequently"
    <<110,101,118,101,114,116,104,101,108,101,115,115>>,  \* "nevertheless"
    <<110,111,110,101,116,104,101,108,101,115,115>>,  \* "nonetheless"
    <<105,110,32,97,100,100,105,116,105,111,110>>,  \* "in addition"
    <<97,115,32,97,32,114,101,115,117,108,116>>,  \* "as a result"
    <<111,110,32,116,104,101,32,111,116,104,101,114,32,104,97,110,100>>  \* "on the other hand"
  >>

\* The alternatives of the slang pattern, src/lib/scanner.js:527
\* (src/content.js:638 is the same pattern)
slangWords ==
  <<
    <<108,111,108>>,  \* "lol"
    <<108,109,97,111>>,  \* "lmao"
    <<116,98,104>>,  \* "tbh"
    <<105,109,111>>,  \* "imo"
    <<105,100,107>>,  \* "idk"
    <<103,111,110,110,97>>,  \* "gonna"
    <<119,97,110,110,97>>,  \* "wanna"
    <<103,111,116,116,97>>,  \* "gotta"
    <<121,97,39,108,108>>,  \* "ya'll"
    <<121,39,97,108,108>>,  \* "y'all"
    <<110,103,108>>,  \* "ngl"
    <<102,114>>,  \* "fr"
    <<98,114,117,104>>  \* "bruh"
  >>

\* The sum of the values of the function f over the finite set S.
RECURSIVE SumOver(_, _)
SumOver(f, S) ==
  IF S = {} THEN 0
  ELSE LET x == CHOOSE y \in S : TRUE IN f[x] + SumOver(f, S \ {x})

\* Matches taken from left to right, each one beginning at or after the
\* position where the previous one ended: starts are the positions where a
\* match can begin and width[p] the length of the match taken at p.
RECURSIVE CountMatches(_, _, _)
CountMatches(starts, width, from) ==
  LET rest == {p \in starts : p >= from}
  IN  IF rest = {} THEN 0
      ELSE 1 + CountMatches(rest, width, Least(rest) + width[Least(rest)])

\* lowerText.split(phrase).length - 1, line 467.
Occurrences(t, phrase) ==
  LET starts == {p \in 1..(Len(t) - Len(phrase) + 1) : MatchAt(t, p, phrase)}
  IN  CountMatches(starts, [p \in starts |-> Len(phrase)], 1)

\* Lines 463-472: the count of every phrase of the list in the text.
PhraseCounts(lowerText) ==
  [k \in 1..Len(llmPhrases) |-> Occurrences(lowerText, llmPhrases[k])]

\* The sentence terminators of /[^.!?]+[.!?]+/g.
Terminators == {46, 33, 63}

\* text.match(/[^.!?]+[.!?]+/g), line 481: a match is a run of one or more
\* other characters followed by a run of terminators, so there is one match
\* for every run of terminators that does not open the text.  The set holds
\* the position where each such run begins.
SentenceMarks(text) ==
  {b \in 2..Len(text) : text[b] \in Terminators /\ text[b - 1] \notin Terminators}

\* The position where the sentence closed by the terminators at b begins.
SentenceStart(text, b) ==
  LET before == {i \in 1..(b - 1) : text[i] \in Terminators}
  IN  IF before = {} THEN 1 ELSE Greatest(before) + 1

\* A whitespace run begins at position i of t.
SpaceRunAt(t, i) == IsSpace(t[i]) /\ (i = 1 \/ ~IsSpace(t[i - 1]))

\* s.trim().split(/\s+/).length for the sentence closed at b, line 483: one
\* more than the whitespace runs inside the trimmed sentence.  The sentence
\* ends in a terminator, so only leading whitespace is trimmed.
SentenceWords(text, b) ==
  LET a     == SentenceStart(text, b)
      first == a + RunWithin(text, a, b - a, Whitespace)
  IN  1 + Cardinality({i \in (first + 1)..b : SpaceRunAt(text, i)})

\* Lines 484-488: cv < 0.25 && avg > 12 for the population of lengths given
\* as a function over a finite index set.  With n values, sum S and sum of
\* squares Q, avg = S/n and cv^2 = (n*Q - S^2) / S^2, so the test is
\* 16 * (n*Q - S^2) < S^2 and S > 12 * n.
UniformSentences(lengths) ==
  LET n == Cardinality(DOMAIN lengths)
      S == SumOver(lengths, DOMAIN lengths)
      Q == SumOver([i \in DOMAIN lengths |-> lengths[i] * lengths[i]], DOMAIN lengths)
  IN  16 * (n * Q - S * S) < S * S /\ S > 12 * n

\* Lines 498-503: pCv < 0.3, that is 100 * (n*Q - S^2) < 9 * S^2.
UniformParagraphs(lengths) ==
  LET n == Cardinality(DOMAIN lengths)
      S == SumOver(lengths, DOMAIN lengths)
      Q == SumOver([i \in DOMAIN lengths |-> lengths[i] * lengths[i]], DOMAIN lengths)
  IN  100 * (n * Q - S * S) < 9 * S * S

\* Every character from position a to position b of t is whitespace.
AllSpace(t, a, b) == \A i \in a..b : IsSpace(t[i])

\* text.split(/\n\s*\n/), line 496: a separator runs from a line feed to the
\* last line feed that only whitespace parts from it.  The set holds the
\* separators as << first, last >> positions.
ParagraphBreaks(text) ==
  LET feeds == {i \in 1..Len(text) : text[i] = 10}
      opens == {i \in feeds :
                  /\ \E j \in feeds : j > i /\ AllSpace(text, i, j)
                  /\ ~\E h \in feeds : h < i /\ AllSpace(text, h, i)}
  IN  {<< i, Greatest({j \in feeds : j > i /\ AllSpace(text, i, j)}) >> : i \in opens}

\* The pieces the separators cut the text into, as << first, last >>
\* positions (last = first - 1 for an empty piece).
ParagraphPieces(text) ==
  LET breaks == ParagraphBreaks(text)
      firsts == {1} \cup {br[2] + 1 : br \in breaks}
  IN  {<< a, LET later == {br[1] : br \in {x \in breaks : x[1] >= a}}
              IN  IF later = {} THEN Len(text) ELSE Least(later) - 1 >> : a \in firsts}

\* p.trim().length for the piece from a to b.
TrimmedLength(text, a, b) ==
  LET lead == RunWithin(text, a, b - a + 1, Whitespace)
  IN  IF lead = b - a + 1 THEN 0
      ELSE Greatest({i \in (a + lead)..b : ~IsSpace(text[i])}) - (a + lead) + 1

\* .filter((p) => p.trim().length > 50), line 496.
Paragraphs(text) ==
  {pc \in ParagraphPieces(text) : TrimmedLength(text, pc[1], pc[2]) > 50}

\* A word character of the regular expressions' \b.
IsWordChar(c) ==
  \/ c >= 48 /\ c <= 57
  \/ c >= 65 /\ c <= 90
  \/ c >= 97 /\ c <= 122
  \/ c = 95

\* \b between position p - 1 and position p of t.
WordBoundary(t, p) ==
  LET left  == p >= 2 /\ p - 1 <= Len(t) /\ IsWordChar(t[p - 1])
      right == p >= 1 /\ p <= Len(t) /\ IsWordChar(t[p])
  IN  left # right

\* The alternatives of \b(w1|w2|...)\b that match at position p of t, by
\* their index in the list.
AlternativesAt(t, p, list) ==
  {k \in 1..Len(list) :
     /\ MatchAt(t, p, list[k])
     /\ WordBoundary(t, p)
     /\ WordBoundary(t, p + Len(list[k]))}

\* lowerText.match(/\b(however|...)\b/g).length, lines 511-515: at each
\* position the first alternative that fits is the match.
CountTransitions(lowerText) ==
  LET starts == {p \in 1..Len(lowerText) : AlternativesAt(lowerText, p, transitionWords) # {}}
      width  == [p \in starts |->
                   Len(transitionWords[Least(AlternativesAt(lowerText, p, transitionWords))])]
  IN  CountMatches(starts, width, 1)

\* text.split(/\s+/).length, line 516: one more than the whitespace runs.
WordCount(text) == 1 + Cardinality({i \in 1..Len(text) : SpaceRunAt(text, i)})

\* The code point of the surrogate pair hi, lo.
CodePoint(hi, lo) == 65536 + (hi - 55296) * 1024 + (lo - 56320)

\* The character class of the emoji test, line 526.
IsEmoji(cp) ==
  \/ cp >= 128512 /\ cp <= 128591
  \/ cp >= 127744 /\ cp <= 128511
  \/ cp >= 128640 /\ cp <= 128767
  \/ cp >= 127456 /\ cp <= 127487

\* Line 526: the pattern has the u flag, so a surrogate pair is one character.
HasEmojis(text) ==
  \E i \in 1..(Len(text) - 1) :
     /\ text[i] >= 55296 /\ text[i] <= 56319
     /\ text[i + 1] >= 56320 /\ text[i + 1] <= 57343
     /\ IsEmoji(CodePoint(text[i], text[i + 1]))

\* Line 527: the pattern has the i flag.
HasSlang(text) ==
  LET low == ToLowerCase(text)
  IN  \E p \in 1..Len(text) : AlternativesAt(low, p, slangWords) # {}

\* Math.round(x) for x = num / den >= 0: the nearest integer, halves up.
RoundHalfUp(num, den) == (2 * num + den) \div (2 * den)

\* A variant of calculateTextConfidence that truncates where the source
\* rounds.
TextConfidenceTruncated(score) ==
  IF score >= 70 THEN 90
  ELSE IF score >= 50 THEN 65 + ((score - 50) * 5) \div 4
  ELSE IF score >= 30 THEN 40 + ((score - 30) * 5) \div 4
  ELSE Max(5, (score * 13) \div 10)

\* src/lib/scanner.js:298-303 (src/content.js:331-336).
calculateTextConfidence(score) ==
  IF score >= 70 THEN 90
  ELSE IF score >= 50 THEN 65 + RoundHalfUp((score - 50) * 5, 4)
  ELSE IF score >= 30 THEN 40 + RoundHalfUp((score - 30) * 5, 4)
  ELSE Max(5, RoundHalfUp(score * 13, 10))

\* Line 443: the shortest text that is scored.
MinTextLength == 300

\* The length test with 200 for the threshold.
ShorterThan200(text) == Len(text) < 200

\* Line 443: text.length < 300.
TooShort(text) == Len(text) < MinTextLength

\* The weights the heuristics add to the score, lines 475, 478, 489, 504,
\* 520 and 530.
ManyPhrasesWeight == 25

SomePhrasesWeight == 10

SentenceWeight == 20

ParagraphWeight == 15

TransitionWeight == 15

FormalityWeight == 10

\* The verdict with the first threshold exclusive.
TextVerdictAbove(score) ==
  IF score > 50 THEN "likely_ai"
  ELSE IF score >= 30 THEN "uncertain"
  ELSE "likely_real"

\* Lines 534-536.
TextVerdict(score) ==
  IF score >= 50 THEN "likely_ai"
  ELSE IF score >= 30 THEN "uncertain"
  ELSE "likely_real"

\* Lines 445-532: what each heuristic measured and whether it fired.
TextHeuristics(text) ==
  LET lowerText   == ToLowerCase(text)
      counts      == PhraseCounts(lowerText)
      phraseHits  == SumOver(counts, DOMAIN counts)
      marks       == SentenceMarks(text)
      lengths     == [b \in marks |-> SentenceWords(text, b)]
      paragraphs  == Paragraphs(text)
      pLens       == [pc \in paragraphs |-> pc[2] - pc[1] + 1]
      transitions == CountTransitions(lowerText)
      wordCount   == WordCount(text)
  IN  [ phraseHits  |-> phraseHits,
        hitPhrases  |-> {k \in DOMAIN counts : counts[k] > 0},
        sentences   |-> Cardinality(marks),
        paragraphs  |-> Cardinality(paragraphs),
        transitions |-> transitions,
        wordCount   |-> wordCount,
        manyPhrases |-> phraseHits >= 3,
        somePhrases |-> phraseHits >= 1 /\ phraseHits < 3,
        sentence    |-> Cardinality(marks) >= 5 /\ UniformSentences(lengths),
        paragraph   |-> Cardinality(paragraphs) >= 3 /\ UniformParagraphs(pLens),
        transition  |-> 1000 * transitions > 15 * wordCount /\ transitions >= 4,
        formality   |-> /\ ~HasEmojis(text)
                        /\ ~HasSlang(text)
                        /\ wordCount > 200
                        /\ phraseHits >= 1 ]

\* The signals array: one entry per heuristic that pushed a reason, in the
\* order of the pushes.  One or two phrase hits add to the score and push
\* nothing (lines 477-479).  The entries are the fixed part of the message;
\* the figures interpolated into it are left out.
TextSignals(h) ==
  (IF h.manyPhrases THEN << "common LLM phrases" >> ELSE << >>)
    \o (IF h.sentence THEN << "Very uniform sentence length" >> ELSE << >>)
    \o (IF h.paragraph THEN << "Very uniform paragraph lengths" >> ELSE << >>)
    \o (IF h.transition THEN << "High transition word density" >> ELSE << >>)
    \o (IF h.formality THEN << "Formal tone with no colloquialisms in long-form text." >> ELSE << >>)

\* The score the heuristics add up to.
TextScore(h) ==
  (IF h.manyPhrases THEN ManyPhrasesWeight
   ELSE IF h.somePhrases THEN SomePhrasesWeight ELSE 0)
    + (IF h.sentence THEN SentenceWeight ELSE 0)
    + (IF h.paragraph THEN ParagraphWeight ELSE 0)
    + (IF h.transition THEN TransitionWeight ELSE 0)
    + (IF h.formality THEN FormalityWeight ELSE 0)

\* A variant of the suppression test that drops every likely_real result.
SuppressedWhenLikelyReal(verdict, signals) == verdict = "likely_real"

\* A variant that returns every scanned text's result.
NeverSuppressed(verdict, signals) == FALSE

\* The suppression test of line 538: a likely_real verdict with an empty
\* signals array returns null.
Suppressed(verdict, signals) == verdict = "likely_real" /\ Len(signals) = 0

\* scanTextBlock with what the heuristics measured: heuristics is None when
\* the length test of line 443 returns first, result is None for null.
ScanTextBlockRun(text) ==
  IF TooShort(text) THEN [heuristics |-> None, result |-> None]
  ELSE LET h       == TextHeuristics(text)
           signals == TextSignals(h)
           score   == TextScore(h)
           verdict == TextVerdict(score)
       IN  [ heuristics |-> Some(h),
             result |->
               IF Suppressed(verdict, signals) THEN None
               ELSE Some([ verdict    |-> verdict,
                           confidence |-> calculateTextConfidence(score),
                           source     |-> IF verdict # "likely_real"
                                          THEN Some("LLM (heuristic)") ELSE None,
                           score      |-> score,
                           reasons    |-> IF Len(signals) > 0 THEN signals
                                          ELSE << "No strong AI signals detected." >>,
                           metadata   |-> [ wordCount |-> h.wordCount,
                                            sentenceCount |-> h.sentences ],
                           fingerprint |-> [ method |-> "Statistical heuristics",
                                             heuristicScore |-> << score, 85 >> ] ]) ]

scanTextBlock(text) == ScanTextBlockRun(text).result

(***************************************************************************)
(* The inputs of the image scans.                                          *)
(***************************************************************************)

\* The most fragments a buffer is put together from.
MaxFragments == 2

Fragments ==
  {
    <<99,50,112,97>>,  \* "c2pa"
    <<106,117,109,98>>,  \* the manifest marker 6a 75 6d 62
    <<0,0,0,0,0>>,  \* five zero bytes
    <<99,50,112,97,32,99,108,97,105,109,95,103,101,110,101,114,97,116,111,114,61,34,76,101,105,99,97,32,77,49,49,34>>,  \* 'c2pa claim_generator="Leica M11"'
    <<99,50,112,97,32,99,108,97,105,109,95,103,101,110,101,114,97,116,111,114,61,34,82,101,112,108,105,99,97,116,101,32,73,110,99,34>>,  \* 'c2pa claim_generator="Replicate Inc"'
    <<99,50,112,97,32,99,108,97,105,109,95,103,101,110,101,114,97,116,111,114,61,34,66,105,110,103,32,67,97,109,101,114,97,34>>,  \* 'c2pa claim_generator="Bing Camera"'
    <<99,50,112,97,32,99,108,97,105,109,95,103,101,110,101,114,97,116,111,114,61,34,65,99,109,101,34>>,  \* 'c2pa claim_generator="Acme"'
    <<99,50,112,97,32,99,108,97,105,109,95,103,101,110,101,114,97,116,111,114,58,83,111,110,121>>,  \* no closing quote: the generator runs on into what follows
    <<67,97,110,118,97>>,  \* 'Canva'
    <<68,65,76,76,45,69>>,  \* 'DALL-E'
    <<255,225,0,10,109,105,100,106,111,117,114,110,101,121>>,  \* an APP1 segment: ff e1, length 10, "midjourney"
    <<60,120,58,120,109,112,109,101,116,97,62,68,105,103,105,116,97,108,83,111,117,114,99,101,84,121,112,101,61,34,116,114,97,105,110,101,100,65,108,103,111,114,105,116,104,109,105,99,77,101,100,105,97,34,60,47,120,58,120,109,112,109,101,116,97,62>>,  \* '<x:xmpmeta>DigitalSourceType="trainedAlgorithmicMedia"</x:xmpmeta>'
    <<83,121,110,116,104,73,68>>  \* 'SynthID'
  }

PlainUrl == <<104,116,116,112,115,58,47,47,101,120,97,109,112,108,101,46,99,111,109,47,97,46,106,112,103>>  \* "https://example.com/a.jpg"

AiHostUrl == <<104,116,116,112,115,58,47,47,82,101,112,108,105,99,97,116,101,46,100,101,108,105,118,101,114,121,47,102,108,117,120,47,49,46,112,110,103>>  \* "https://Replicate.delivery/flux/1.png"

AiAlt == <<65,110,32,65,73,45,71,101,110,101,114,97,116,101,100,32,99,97,116>>  \* "An AI-Generated cat"

PlainAlt == <<97,32,99,97,116>>  \* "a cat"

RECURSIVE Concat(_)
Concat(parts) == IF parts = << >> THEN << >> ELSE parts[1] \o Concat(Tail(parts))

\* Every buffer made of at most MaxFragments fragments, in any order.
Buffers ==
  {Concat(parts) : parts \in UNION {[1..n -> Fragments] : n \in 0..MaxFragments}}

\* The URL that comes with the bytes: None for an upload.
Urls == {None, Some(PlainUrl), Some(AiHostUrl)}

\* The <img> element a page scan passes to scanImageUrl: None for a URL scan.
Elements ==
  { None,
    Some([alt |-> AiAlt, title |-> << >>]),
    Some([alt |-> PlainAlt, title |-> << >>]) }


(***************************************************************************)
(* The inputs of the metadata scans: buffers whose first APP1 segment,     *)
(* XMP packet and remaining text hold different tokens, with and without  *)
(* a provenance manifest, and a URL that holds several host patterns.     *)
(***************************************************************************)

DalleSegment == <<255,225,0,6,68,65,76,76,45,69>>  \* an APP1 segment: ff e1, length 6, "DALL-E"

MidjourneySegment == <<255,225,0,10,109,105,100,106,111,117,114,110,101,121>>  \* an APP1 segment: ff e1, length 10, "midjourney"

OverlongSegment == <<255,225,255,255,65,100,111,98,101,32,70,105,114,101,102,108,121,0,77,111,100,101,108,0,67,97,110,111,110,32,69,79,83,0,50,48,50,52,58,48,49,58,48,50,32,48,51,58,48,52,58,48,53,0>>  \* ff e1, length 65535, then "Adobe Firefly", "Model", "Canon EOS", "2024:01:02 03:04:05", each closed by a zero byte

TokenPacket == <<60,120,58,120,109,112,109,101,116,97,62,83,116,97,98,108,101,32,68,105,102,102,117,115,105,111,110,60,47,120,58,120,109,112,109,101,116,97,62>>  \* '<x:xmpmeta>Stable Diffusion</x:xmpmeta>'

PlainToken == <<68,65,76,76,45,69>>  \* 'DALL-E'

LeicaManifest == <<99,50,112,97,32,99,108,97,105,109,95,103,101,110,101,114,97,116,111,114,61,34,76,101,105,99,97,32,77,49,49,34>>  \* 'c2pa claim_generator="Leica M11"'

FireflyManifest == <<99,50,112,97,32,99,108,97,105,109,95,103,101,110,101,114,97,116,111,114,61,34,65,100,111,98,101,32,70,105,114,101,102,108,121,32,50,34>>  \* 'c2pa claim_generator="Adobe Firefly 2"'

SynthIdMention == <<83,121,110,116,104,73,68>>  \* 'SynthID'

ZeroBytes == <<0,0,0,0,0>>  \* five zero bytes

MetadataFragments ==
  { DalleSegment,
    MidjourneySegment,
    OverlongSegment,
    TokenPacket,
    PlainToken,
    LeicaManifest,
    FireflyManifest,
    SynthIdMention,
    ZeroBytes }

\* Every buffer made of at most MaxFragments of these fragments, in any order.
MetadataBuffers ==
  {Concat(parts) :
     parts \in UNION {[1..n -> MetadataFragments] : n \in 0..MaxFragments}}

MixedHostUrl == <<104,116,116,112,115,58,47,47,114,101,112,108,105,99,97,116,101,46,100,101,108,105,118,101,114,121,47,111,112,101,110,97,105,47,100,97,108,108,101,45,51,46,112,110,103>>  \* "https://replicate.delivery/openai/dalle-3.png"

MetadataUrls == {None, Some(PlainUrl), Some(AiHostUrl), Some(MixedHostUrl)}


(***************************************************************************)
(* The inputs of the text scans: articles put together from sentences,     *)
(* some opening with a phrase of llmPhrases or a transition word, laid     *)
(* out in one or three paragraphs, closed in a formal or a casual tone,    *)
(* and padded to a length at one of the lengths the code compares with.    *)
(***************************************************************************)

\* The most sentences of an article that open with an LLM phrase.
MaxPhrases == 3

\* The sentences of an article that open with a transition word, when any do.
MaxTransitions == 4

\* s repeated n times.
Repeat(s, n) == [i \in 1..(n * Len(s)) |-> s[((i - 1) % Len(s)) + 1]] \o << >>

FillerWord == <<100,97,116,97,32>>  \* 'data '

LastWord == <<100,97,116,97,46>>  \* 'data.'

PhraseLead == <<68,101,108,118,101,32,105,110,116,111,32>>  \* 'Delve into '

TransitionLead == <<72,111,119,101,118,101,114,44,32>>  \* 'However, '

SlangClose == <<32,108,111,108>>  \* ' lol'

EmojiClose == <<32,55357,56832>>  \* a space and U+1F600

LineBreak == <<10,10>>  \* two line feeds

SpacedBreak == <<10,32,10>>  \* two line feeds with a space between them

\* A sentence of the given number of filler words behind its openings.
Sentence(words, phrase, transition) ==
  (IF transition THEN TransitionLead ELSE << >>)
    \o (IF phrase THEN PhraseLead ELSE << >>)
    \o Repeat(FillerWord, words - 1) \o LastWord

SentenceCounts == {3, 6, 15}

Shapes == {"uniform", "varied"}

Layouts == {"one", "even", "uneven"}

Tones == {"formal", "slang", "emoji"}

\* The lengths an article is padded to (0: left as it is), one on each side
\* of the comparisons at src/lib/scanner.js:443 and
\* src/api/analyze-text.js:31 and 38, and 301, the length of the shortest
\* text the spec gives an example for.
Paddings == {0, 299, 300, 301, 50000, 50001}

FillerWords(shape, i) ==
  IF shape = "uniform" THEN 14 ELSE IF i % 2 = 1 THEN 4 ELSE 24

\* What parts sentence i of an article of n sentences from the one before.
Joiner(layout, n, i) ==
  IF layout = "even" /\ (i = (n \div 3) + 1 \/ i = 2 * (n \div 3) + 1) THEN LineBreak
  ELSE IF layout = "uneven" /\ (i = 2 \/ i = 3) THEN SpacedBreak
  ELSE << 32 >>

RECURSIVE ArticleFrom(_, _)
ArticleFrom(p, i) ==
  IF i > p.sentences THEN << >>
  ELSE (IF i = 1 THEN << >> ELSE Joiner(p.layout, p.sentences, i))
         \o Sentence(FillerWords(p.shape, i), i <= p.phrases, i <= p.transitions)
         \o ArticleFrom(p, i + 1)

\* t cut or filled with the letter x to the length len.
PadTo(t, len) ==
  IF len = 0 THEN t
  ELSE [i \in 1..len |-> IF i <= Len(t) THEN t[i] ELSE 120] \o << >>

Article(p) ==
  PadTo(ArticleFrom(p, 1)
          \o (IF p.tone = "slang" THEN SlangClose
              ELSE IF p.tone = "emoji" THEN EmojiClose ELSE << >>),
        p.padding)

\* The articles: every combination of the features at its own length, the
\* three-sentence ones also at 299 and 300 characters, the six-sentence
\* ones also cut to 301 characters, and one article with three phrases at
\* 50,000 and at 50,001 characters.
ArticleParameters ==
  { p \in [ sentences : SentenceCounts, phrases : 0..MaxPhrases,
            transitions : {0, MaxTransitions}, shape : Shapes,
            layout : Layouts, tone : Tones, padding : Paddings ] :
      \/ p.padding = 0
      \/ p.padding \in {299, 300} /\ p.sentences = 3 /\ p.tone = "formal"
      \/ p.padding = 301 /\ p.sentences = 6 /\ p.tone = "formal"
      \/ /\ p.padding \in {50000, 50001}
         /\ p.sentences = 3 /\ p.phrases = 3 /\ p.transitions = 0
         /\ p.shape = "uniform" /\ p.layout = "one" /\ p.tone = "formal" }

Texts == {<< >>} \cup {Article(p) : p \in ArticleParameters}

\* The request methods POST /api/analyze-text is sent with.
Methods == {"POST", "GET", "OPTIONS"}

(***************************************************************************)
(* The state.  An image scan has one media item (its bytes, its URL, its   *)
(* <img> element when it comes from a page) and what each of the two       *)
(* scanners returned for it.  A confidence calculation has a set of        *)
(* signals and one more signal to add.  A text scan has one text, what     *)
(* scanTextBlock returned for it and what POST /api/analyze-text           *)
(* answered.  None stands for "not run yet".                               *)
(***************************************************************************)
VARIABLES buffer, url, imgElement, apiRun, apiResponse, extRun,
          signals, added, confidence,
          text, textRun, response,
          calls,
          now, hits, crowd, served, ticks,
          fetchState, chunks, totalBytes, combined,
          clock, waits, timers, autoScanTimeout, activations, triggered, setting,
          summaries, scanSummary, scans, scannedElements, badges

vars == << buffer, url, imgElement, apiRun, apiResponse, extRun,
           signals, added, confidence, text, textRun, response,
           calls,
           now, hits, crowd, served, ticks,
           fetchState, chunks, totalBytes, combined,
           clock, waits, timers, autoScanTimeout, activations, triggered, setting,
           summaries, scanSummary, scans, scannedElements, badges >>

imageVars == << buffer, url, imgElement, apiRun, apiResponse, extRun >>

confidenceVars == << signals, added, confidence >>

textVars == << text, textRun, response >>

detectVars == << calls >>

limiterVars == << now, hits, crowd, served, ticks >>

\* The state of the parts that run for longer than one scan.
fetchVars == << fetchState, chunks, totalBytes, combined >>

workerVars == << clock, waits, timers, autoScanTimeout, activations, triggered, setting >>

pageVars == << summaries, scanSummary, scans, scannedElements, badges >>

\* The state of the parts that run for longer than one scan.
runtimeVars == << detectVars, limiterVars, fetchVars, workerVars, pageVars >>

NoImage ==
  /\ buffer = << >> /\ url = None /\ imgElement = None
  /\ apiRun = None /\ apiResponse = None /\ extRun = None

NoConfidence == signals = NoSignals /\ added = "c2pa" /\ confidence = None

NoText == text = << >> /\ textRun = None /\ response = None

NoDetect == calls = << >>

NoLimiter ==
  /\ now = 0
  /\ hits = << >>
  /\ crowd = [ size |-> 0, resetAt |-> 0 ]
  /\ served = << >>
  /\ ticks = 0

NoFetch ==
  /\ fetchState = "idle"
  /\ chunks = << >>
  /\ totalBytes = 0
  /\ combined = None

NoWorker ==
  /\ clock = 0
  /\ waits = 0
  /\ timers = {}
  /\ autoScanTimeout = None
  /\ activations = << >>
  /\ triggered = << >>
  /\ setting = None

NoPage ==
  /\ summaries = << >>
  /\ scanSummary = 0
  /\ scans = << >>
  /\ scannedElements = << >>
  /\ badges = {}

NoRuntime == NoDetect /\ NoLimiter /\ NoFetch /\ NoWorker /\ NoPage

\* An image of a page has a source URL (scanImage, src/content.js:347-355).
Init ==
  /\ buffer \in Buffers
  /\ url \in Urls
  /\ imgElement \in Elements
  /\ imgElement # None => url # None
  /\ apiRun = None
  /\ apiResponse = None
  /\ extRun = None
  /\ NoConfidence
  /\ NoText
  /\ NoRuntime

\* The handler of POST /api/scan answering 200 though the image could not
\* be fetched, with the scan of no bytes.
scan_handlerScanningNothing(bytes, sourceUrl, fetched) ==
  [ fetched |-> fetched, status |-> 200, code |-> "",
    run |-> Some(ScanBufferRun(IF fetched THEN bytes ELSE << >>, sourceUrl)) ]

\* The handler of POST /api/scan (src/api/scan.js:20-107) for a valid
\* request: fetched is FALSE when fetchImageHead returned null (lines
\* 82-88), and run holds the call of scanBuffer (line 97) when it was
\* made, whose result is the body of the 200 response.
scan_handler(bytes, sourceUrl, fetched) ==
  IF ~fetched
  THEN [ fetched |-> FALSE, status |-> 422, code |-> "FETCH_FAILED", run |-> None ]
  ELSE [ fetched |-> TRUE, status |-> 200, code |-> "",
         run |-> Some(ScanBufferRun(bytes, sourceUrl)) ]

\* POST /api/scan: an upload is a non-empty file with no URL, a URL scan
\* the fetched prefix with its URL, or no bytes when the fetch failed.
\* The API is given no page element.
ScanBuffer ==
  /\ apiRun = None
  /\ apiResponse = None
  /\ imgElement = None
  /\ url # None \/ Len(buffer) > 0
  /\ \E fetched \in (IF url = None THEN {TRUE} ELSE BOOLEAN) :
       \E resp \in { scan_handler(buffer, url, fetched) } :
         /\ apiResponse' = Some([ fetched |-> resp.fetched, status |-> resp.status,
                                   code |-> resp.code, scanned |-> resp.run # None ])
         /\ apiRun' = resp.run
  /\ UNCHANGED << buffer, url, imgElement, extRun, confidenceVars, textVars, runtimeVars >>

\* scanImageUrl (src/content.js:357-486) for an image with a source URL:
\* fetchImageBytes gives the bytes or nothing.
ScanImageUrl ==
  /\ extRun = None
  /\ url # None
  /\ \E fetched \in BOOLEAN :
        extRun' = Some(IF fetched
                       THEN [fetched |-> TRUE, run |-> ScanImageUrlRun(buffer, url[1], imgElement)]
                       ELSE [fetched |-> FALSE, run |-> [result |-> content_FetchFailed]])
  /\ UNCHANGED << buffer, url, imgElement, apiRun, apiResponse, confidenceVars, textVars, runtimeVars >>

Next == ScanBuffer \/ ScanImageUrl

Spec == Init /\ [][Next]_vars

\* The same scans started from the buffers and URLs of the metadata inputs.
MetadataInit ==
  /\ buffer \in MetadataBuffers
  /\ url \in MetadataUrls
  /\ imgElement = None
  /\ apiRun = None
  /\ apiResponse = None
  /\ extRun = None
  /\ NoConfidence
  /\ NoText
  /\ NoRuntime

MetadataSpec == MetadataInit /\ [][Next]_vars

(***************************************************************************)
(* calculateImageConfidence applied to every set of signals, and to the    *)
(* set with one more signal.                                               *)
(***************************************************************************)
ConfidenceInit ==
  /\ signals \in [SignalNames -> BOOLEAN]
  /\ added \in SignalNames
  /\ ~signals[added]
  /\ confidence = None
  /\ NoImage
  /\ NoText
  /\ NoRuntime

CalculateImageConfidence ==
  /\ confidence = None
  /\ confidence' = Some([ before |-> calculateImageConfidence(signals),
                          after  |-> calculateImageConfidence([signals EXCEPT ![added] = TRUE]) ])
  /\ UNCHANGED << signals, added, imageVars, textVars, runtimeVars >>

ConfidenceNext == CalculateImageConfidence

ConfidenceSpec == ConfidenceInit /\ [][ConfidenceNext]_vars

(***************************************************************************)
(* The text scans: scanTextBlock called on a block of page text            *)
(* (src/content.js:947-948) and POST /api/analyze-text                     *)
(* (src/api/analyze-text.js:9-73).                                         *)
(***************************************************************************)
TextInit ==
  /\ text \in Texts
  /\ textRun = None
  /\ response = None
  /\ NoImage
  /\ NoConfidence
  /\ NoRuntime

ScanTextBlock ==
  /\ textRun = None
  /\ textRun' = Some(ScanTextBlockRun(text))
  /\ UNCHANGED << text, response, imageVars, confidenceVars, runtimeVars >>

\* src/api/analyze-text.js:31.
MinRequestLength == 300

\* src/api/analyze-text.js:38.
MaxRequestLength == 50000

\* The JSON body of an error response.
ErrorResponse(status, code, message) ==
  [ status |-> status, ok |-> FALSE, code |-> code, message |-> message, result |-> None ]

\* src/api/analyze-text.js:47-63: the result sent when scanTextBlock gave none.
DefaultTextResult(t) ==
  [ verdict |-> "likely_real", confidence |-> 5, source |-> None, score |-> 0,
    reasons |-> << "No AI signals detected." >>,
    metadata |-> [ wordCount |-> WordCount(t),
                   sentenceCount |-> Cardinality(SentenceMarks(t)) ],
    fingerprint |-> [ method |-> "Statistical heuristics", heuristicScore |-> << 0, 85 >> ] ]

\* The handler for a request with the given method whose body holds the
\* string t.  scanned is TRUE when line 45 was reached.
handler(method, t) ==
  IF method = "OPTIONS" THEN
    [ status |-> 204, ok |-> TRUE, code |-> "", message |-> "", result |-> None, scanned |-> FALSE ]
  ELSE IF method # "POST" THEN
    [ status |-> 405, ok |-> FALSE, code |-> "METHOD_NOT_ALLOWED", message |-> "Use POST.",
      result |-> None, scanned |-> FALSE ]
  ELSE IF Len(t) = 0 THEN
    [ status |-> 400, ok |-> FALSE, code |-> "INVALID_INPUT",
      message |-> "JSON body must include a \"text\" string.", result |-> None, scanned |-> FALSE ]
  ELSE IF Len(t) < MinRequestLength THEN
    [ status |-> 400, ok |-> FALSE, code |-> "INVALID_INPUT",
      message |-> "Text must be at least 300 characters for meaningful analysis.",
      result |-> None, scanned |-> FALSE ]
  ELSE IF Len(t) > MaxRequestLength THEN
    [ status |-> 400, ok |-> FALSE, code |-> "INVALID_INPUT",
      message |-> "Text must not exceed 50,000 characters.", result |-> None, scanned |-> FALSE ]
  ELSE LET result == scanTextBlock(t)
       IN  [ status |-> 200, ok |-> TRUE, code |-> "", message |-> "",
             result |-> IF result = None THEN Some(DefaultTextResult(t)) ELSE result,
             scanned |-> TRUE ]

AnalyzeText ==
  /\ response = None
  /\ \E method \in Methods : response' = Some(handler(method, text))
  /\ UNCHANGED << text, textRun, imageVars, confidenceVars, runtimeVars >>

TextNext == ScanTextBlock \/ AnalyzeText

TextSpec == TextInit /\ [][TextNext]_vars

(***************************************************************************)
(* detectC2PA called again and again in one process                        *)
(* (src/lib/scanner.js:107-141): calls holds every call made so far, the   *)
(* bytes it was given and the info object it returned.                     *)
(***************************************************************************)

\* The most calls of a history.
MaxCalls == 3

SignedManifest == <<99,50,112,97,32,99,108,97,105,109,95,103,101,110,101,114,97,116,111,114,61,34,65,100,111,98,101,32,70,105,114,101,102,108,121,32,50,34,32,115,105,103,110,101,114,61,65,100,111,98,101,32,73,110,99,34>>  \* 'c2pa claim_generator="Adobe Firefly 2" signer=Adobe Inc"'

\* The manifest marker followed by five zero bytes: found, with no field.
MarkerOnly == <<106,117,109,98,0,0,0,0,0>>

DetectBuffers ==
  { << >>, PlainToken, MarkerOnly, LeicaManifest, FireflyManifest, SignedManifest }

DetectInit ==
  /\ calls = << >>
  /\ NoImage
  /\ NoConfidence
  /\ NoText
  /\ NoLimiter
  /\ NoFetch
  /\ NoWorker
  /\ NoPage

DetectC2PA ==
  /\ Len(calls) < MaxCalls
  /\ \E bytes \in DetectBuffers :
       calls' = Append(calls, [ bytes |-> bytes,
                                info  |-> DetectInto(InfoAtEntry(calls), bytes) ])
  /\ UNCHANGED << imageVars, confidenceVars, textVars, limiterVars, fetchVars, workerVars, pageVars >>

DetectNext == DetectC2PA

DetectSpec == DetectInit /\ [][DetectNext]_vars

(***************************************************************************)
(* The rate limiter of the API (src/unnamed/part_003): one instance of the *)
(* middleware with its map of hits.  Times are milliseconds since the      *)
(* instance started.                                                       *)
(***************************************************************************)

\* The most bursts of requests served, and the most advances of the clock.
MaxBursts == 3
MaxTicks == 2

\* src/unnamed/part_003:6.
WINDOW_MS == 60000

\* src/unnamed/part_003:7.
MAX_REQUESTS == 30

\* src/unnamed/part_003:38: the map is pruned when it holds more entries.
PruneAbove == 10000

\* The requests of two clients: one behind a proxy chain, one that sends
\* neither header.  forwarded holds the entries of x-forwarded-for.
ProxiedRequest == [ forwarded |-> << "203.0.113.7", "10.0.0.1" >>, realIp |-> "198.51.100.9" ]
BareRequest    == [ forwarded |-> << >>, realIp |-> "" ]
Requests == { ProxiedRequest, BareRequest }

\* The requests that arrive within one millisecond, and the advances of the
\* clock between arrivals.
BurstSizes == { 1, MAX_REQUESTS }
Delays == { 1, WINDOW_MS }

\* Lines 17-20: the key a request is counted under.
ClientKey(request) ==
  IF request.forwarded # << >> /\ request.forwarded[1] # ""
  THEN request.forwarded[1]
  ELSE IF request.realIp # "" THEN request.realIp ELSE "unknown"

\* Math.ceil(a / b) for a >= 0.
CeilDiv(a, b) == (a + b - 1) \div b

\* A limit test that lets one more request through.
OverLimitByTwo(count) == count > MAX_REQUESTS + 1

\* Line 44.
OverLimit(count) == count > MAX_REQUESTS

\* The entry of a request when the window is opened again by every
\* rejected request.
EntryExtendedOnReject(old, at) ==
  LET kept == IF old # None /\ at > old[1].resetAt THEN None ELSE old
  IN  IF kept = None THEN [ count |-> 1, resetAt |-> at + WINDOW_MS ]
      ELSE IF OverLimit(kept[1].count + 1)
           THEN [ count |-> kept[1].count + 1, resetAt |-> at + WINDOW_MS ]
           ELSE [ kept[1] EXCEPT !.count = @ + 1 ]

\* Lines 23-35: the entry of the key after the request is counted.  old is
\* the entry found in the map, None when there was none; an entry whose
\* resetAt has passed is replaced by a fresh one.
EntryAfter(old, at) ==
  LET kept == IF old # None /\ at > old[1].resetAt THEN None ELSE old
      base == IF kept = None THEN [ count |-> 0, resetAt |-> at + WINDOW_MS ]
              ELSE kept[1]
  IN  [ base EXCEPT !.count = @ + 1 ]

\* One call of middleware (lines 16-69) at time at on the map m, which is
\* the entries of the two clients and the crowd, the entries of other
\* clients.  response is None when the request is passed on (line 68).
middleware(m, request, at) ==
  LET key    == ClientKey(request)
      old    == IF key \in DOMAIN m.entries THEN Some(m.entries[key]) ELSE None
      entry  == EntryAfter(old, at)
      set    == [ k \in DOMAIN m.entries \cup {key} |->
                    IF k = key THEN entry ELSE m.entries[k] ]
      size   == Cardinality(DOMAIN set) + m.crowd.size
      live   == { k \in DOMAIN set : ~(at > set[k].resetAt) }
      pruned == IF size > PruneAbove THEN [ k \in live |-> set[k] ] ELSE set
      others == IF size > PruneAbove /\ at > m.crowd.resetAt
                THEN [ m.crowd EXCEPT !.size = 0 ] ELSE m.crowd
  IN  [ entries  |-> pruned,
        crowd    |-> others,
        outcome  |->
          [ count    |-> entry.count,
            resetAt  |-> entry.resetAt,
            response |->
              IF OverLimit(entry.count)
              THEN Some([ status     |-> 429,
                          code       |-> "RATE_LIMITED",
                          retryAfter |-> CeilDiv(entry.resetAt - at, 1000),
                          limit      |-> MAX_REQUESTS,
                          remaining  |-> 0,
                          reset      |-> CeilDiv(entry.resetAt, 1000) ])
              ELSE None ] ]

\* n calls of middleware one after another within the millisecond at:
\* outcomes holds the outcomes of the calls made so far.
RECURSIVE ServeFrom(_, _, _, _, _)
ServeFrom(m, request, at, n, outcomes) ==
  IF Len(outcomes) = n
  THEN [ entries |-> m.entries, crowd |-> m.crowd, outcomes |-> outcomes ]
  ELSE LET one == middleware(m, request, at)
       IN  ServeFrom([ entries |-> one.entries, crowd |-> one.crowd ],
                     request, at, n, Append(outcomes, one.outcome))

Serve(m, request, at, n) == ServeFrom(m, request, at, n, << >>)

NoEntries == [ k \in {} |-> [ count |-> 0, resetAt |-> 0 ] ]

NoCrowd == [ size |-> 0, resetAt |-> 0 ]

\* The entries of ten thousand other clients whose windows opened at 0.
Crowd == [ size |-> PruneAbove, resetAt |-> WINDOW_MS ]

LimiterInit ==
  /\ now = 0
  /\ hits = NoEntries
  /\ crowd \in { NoCrowd, Crowd }
  /\ served = << >>
  /\ ticks = 0
  /\ NoImage
  /\ NoConfidence
  /\ NoText
  /\ NoDetect
  /\ NoFetch
  /\ NoWorker
  /\ NoPage

\* A burst of requests of one client reaches the middleware.
Middleware ==
  /\ Len(served) < MaxBursts
  /\ \E request \in Requests, n \in BurstSizes :
       \E after \in { Serve([ entries |-> hits, crowd |-> crowd ], request, now, n) } :
         /\ hits' = after.entries
         /\ crowd' = after.crowd
         /\ served' = Append(served, [ key      |-> ClientKey(request),
                                       at       |-> now,
                                       outcomes |-> after.outcomes ])
  /\ UNCHANGED << now, ticks, imageVars, confidenceVars, textVars, detectVars, fetchVars, workerVars, pageVars >>

\* Date.now() moves on.
Tick ==
  /\ ticks < MaxTicks
  /\ \E dt \in Delays : now' = now + dt
  /\ ticks' = ticks + 1
  /\ UNCHANGED << hits, crowd, served, imageVars, confidenceVars, textVars, detectVars, fetchVars, workerVars, pageVars >>

LimiterNext == Middleware \/ Tick

LimiterSpec == LimiterInit /\ [][LimiterNext]_vars

(***************************************************************************)
(* fetchImageHead(url, MAX_FETCH_BYTES) (src/api/scan.js:158-194) reading  *)
(* the body of a response chunk by chunk.  A chunk and the buffer returned *)
(* are held by their byte lengths.                                         *)
(***************************************************************************)

\* The most chunks a response body delivers.
MaxChunks == 4

\* src/api/scan.js:12.
MAX_FETCH_BYTES == 300000

\* The byte lengths of the chunks a stream delivers.
ChunkSizes == { 1, 16384, 65536, 150000, 299999, 300000 }

\* Lines 183-189: the chunks read, put together.
RECURSIVE ByteLength(_)
ByteLength(read) ==
  IF read = << >> THEN 0 ELSE Head(read) + ByteLength(Tail(read))

\* Lines 180-189: a Uint8Array of totalBytes bytes filled with every chunk
\* read.
Combined(read) == Some(ByteLength(read))

FetchInit ==
  /\ fetchState = "fetching"
  /\ chunks = << >>
  /\ totalBytes = 0
  /\ combined = None
  /\ NoImage
  /\ NoConfidence
  /\ NoText
  /\ NoDetect
  /\ NoLimiter
  /\ NoWorker
  /\ NoPage

\* Lines 163-172: the response arrives; one that is not ok returns null.
Respond ==
  /\ fetchState = "fetching"
  /\ \E ok \in BOOLEAN :
       fetchState' = IF ok THEN "reading" ELSE "returned"
  /\ UNCHANGED << chunks, totalBytes, combined,
                  imageVars, confidenceVars, textVars, detectVars, limiterVars, workerVars, pageVars >>

\* Lines 173-178 for a read that delivers a chunk, and lines 180-189 when
\* the loop test then fails.
ReadChunk ==
  /\ fetchState = "reading"
  /\ Len(chunks) < MaxChunks
  /\ \E size \in ChunkSizes :
       /\ chunks' = Append(chunks, size)
       /\ totalBytes' = totalBytes + size
       /\ IF totalBytes + size < MAX_FETCH_BYTES
          THEN UNCHANGED << fetchState, combined >>
          ELSE /\ fetchState' = "returned"
               /\ combined' = Combined(Append(chunks, size))
  /\ UNCHANGED << imageVars, confidenceVars, textVars, detectVars, limiterVars, workerVars, pageVars >>

\* Lines 174-175 for a read that reports the end of the body, then lines
\* 180-189.
ReadDone ==
  /\ fetchState = "reading"
  /\ fetchState' = "returned"
  /\ combined' = Combined(chunks)
  /\ UNCHANGED << chunks, totalBytes,
                  imageVars, confidenceVars, textVars, detectVars, limiterVars, workerVars, pageVars >>

\* Lines 190-193: the fetch or a read rejects (network error, or the abort
\* of the 8-second timeout) and null is returned.
FetchThrows ==
  /\ fetchState \in { "fetching", "reading" }
  /\ fetchState' = "returned"
  /\ UNCHANGED << chunks, totalBytes, combined,
                  imageVars, confidenceVars, textVars, detectVars, limiterVars, workerVars, pageVars >>

FetchNext == Respond \/ ReadChunk \/ ReadDone \/ FetchThrows

FetchSpec == FetchInit /\ [][FetchNext]_vars

(***************************************************************************)
(* The auto-scan of the background worker (src/unnamed/part_000:72-105):   *)
(* tab activations, the debounce timer and the calls of triggerAutoScan.   *)
(* clock is the time in milliseconds; a timer never fires before it is     *)
(* due and may fire late.                                                  *)
(***************************************************************************)

\* The most tab activations, and the most advances of the clock.
MaxActivations == 3
MaxWaits == 2

\* src/unnamed/part_000:73.
AUTO_SCAN_DEBOUNCE_MS == 800

\* The tabs of the browser: an https page, an http page, a browser page,
\* and a tab that is closed by the time chrome.tabs.get is called for it.
HttpUrl == <<104,116,116,112,58,47,47,101,120,97,109,112,108,101,46,99,111,109,47>>  \* "http://example.com/"
BrowserUrl == <<99,104,114,111,109,101,58,47,47,110,101,119,116,97,98,47>>  \* "chrome://newtab/"
Tabs == 1..4
TabUrl(tabId) ==
  CASE tabId = 1 -> Some(PlainUrl)
    [] tabId = 2 -> Some(HttpUrl)
    [] tabId = 3 -> Some(BrowserUrl)
    [] OTHER     -> None

\* The advances of the clock between events.
Waits == { AUTO_SCAN_DEBOUNCE_MS - 1, AUTO_SCAN_DEBOUNCE_MS }

\* The values chrome.storage.local holds for autoScanOnTabChange: None when
\* the key was never stored.
Settings == { None, Some(TRUE), Some(FALSE) }

\* Lines 76-79.
isScannableUrl(tabUrl) ==
  /\ Len(tabUrl) > 0
  /\ \/ MatchAt(tabUrl, 1, <<104,116,116,112,58>>)      \* "http:"
     \/ MatchAt(tabUrl, 1, <<104,116,116,112,115,58>>)  \* "https:"

\* scheduleAutoScan setting its timer beside the pending one.
TimersKept(pending, handle) == pending

\* Line 96: clearTimeout of the pending timer, when there is one.
TimersCleared(pending, handle) ==
  IF handle = None THEN pending ELSE { t \in pending : t.id # handle[1] }

WorkerInit ==
  /\ clock = 0
  /\ waits = 0
  /\ timers = {}
  /\ autoScanTimeout = None
  /\ activations = << >>
  /\ triggered = << >>
  /\ setting \in Settings
  /\ NoImage
  /\ NoConfidence
  /\ NoText
  /\ NoDetect
  /\ NoLimiter
  /\ NoFetch
  /\ NoPage

\* chrome.tabs.onActivated (lines 103-105) calling scheduleAutoScan (lines
\* 95-101).  A timer carries the index of the activation that set it.
Activate ==
  /\ Len(activations) < MaxActivations
  /\ \E tabId \in Tabs :
       LET id == Len(activations) + 1
       IN  /\ activations' = Append(activations, [ tabId |-> tabId, at |-> clock ])
           /\ timers' = TimersCleared(timers, autoScanTimeout)
                          \cup { [ id |-> id, tabId |-> tabId,
                                   due |-> clock + AUTO_SCAN_DEBOUNCE_MS ] }
           /\ autoScanTimeout' = Some(id)
  /\ UNCHANGED << clock, waits, triggered, setting,
                  imageVars, confidenceVars, textVars, detectVars, limiterVars, fetchVars, pageVars >>

\* Time passes.
Wait ==
  /\ waits < MaxWaits
  /\ \E dt \in Waits : clock' = clock + dt
  /\ waits' = waits + 1
  /\ UNCHANGED << timers, autoScanTimeout, activations, triggered, setting,
                  imageVars, confidenceVars, textVars, detectVars, limiterVars, fetchVars, pageVars >>

\* The callback of a timer that is due (lines 97-100): triggerAutoScan is
\* called and runs up to its first await (line 82).
TimerFires ==
  /\ \E t \in timers :
       /\ t.due <= clock
       /\ timers' = timers \ {t}
       /\ triggered' = Append(triggered,
            [ activation |-> t.id, tabId |-> t.tabId, at |-> clock,
              stage |-> "storage", enabled |-> None, tabUrl |-> None, sent |-> FALSE ])
  /\ autoScanTimeout' = None
  /\ UNCHANGED << clock, waits, activations, setting,
                  imageVars, confidenceVars, textVars, detectVars, limiterVars, fetchVars, pageVars >>

\* Lines 82-86: the setting arrives, true when none is stored; the call
\* returns when it is false and asks for the tab otherwise.
SettingRead ==
  /\ \E k \in 1..Len(triggered) :
       /\ triggered[k].stage = "storage"
       /\ LET autoScanOnTabChange == IF setting = None THEN TRUE ELSE setting[1]
          IN  triggered' = [ triggered EXCEPT
                ![k].enabled = Some(autoScanOnTabChange),
                ![k].stage = IF autoScanOnTabChange THEN "tabs" ELSE "returned" ]
  /\ UNCHANGED << clock, waits, timers, autoScanTimeout, activations, setting,
                  imageVars, confidenceVars, textVars, detectVars, limiterVars, fetchVars, pageVars >>

\* Lines 86-92: chrome.tabs.get rejects for a closed tab and the call
\* returns through the catch; it returns for a tab whose URL is not
\* scannable; otherwise SCAN_PAGE is sent to the tab.
TabRead ==
  /\ \E k \in 1..Len(triggered) :
       /\ triggered[k].stage = "tabs"
       /\ LET tab == TabUrl(triggered[k].tabId)
          IN  triggered' = [ triggered EXCEPT
                ![k].tabUrl = tab,
                ![k].sent = tab # None /\ isScannableUrl(tab[1]),
                ![k].stage = "returned" ]
  /\ UNCHANGED << clock, waits, timers, autoScanTimeout, activations, setting,
                  imageVars, confidenceVars, textVars, detectVars, limiterVars, fetchVars, pageVars >>

WorkerNext == Activate \/ Wait \/ TimerFires \/ SettingRead \/ TabRead

WorkerSpec == WorkerInit /\ [][WorkerNext]_vars

(***************************************************************************)
(* The page scan of the content script (src/content.js:78-80, 881-1000).   *)
(* summaries holds every summary object created, the one of line 80 first, *)
(* and scanSummary is the index of the object the module-level binding     *)
(* refers to.  A result carries its element and, as history, the scan      *)
(* whose promise produced it.                                              *)
(***************************************************************************)

\* The most page scans started.
MaxScans == 2

\* The page: two images with a fetchable source, a video, a text block.
Images == { "a", "b" }
Videos == { "v" }
TextBlocks == { "t" }
PageElements == Images \cup Videos \cup TextBlocks

\* How the promise of an image ends: scanImage returned a result scanned
\* from the bytes, the no_metadata result of a failed fetch, or it threw.
\* Image "a" may fail in either way, image "b" by a throw.
Outcomes(img) ==
  IF img = "a" THEN { "scanned", "unfetched", "threw" } ELSE { "scanned", "threw" }

EmptySummary == [ images |-> << >>, videos |-> << >>, text |-> << >> ]

\* The results of the elements scanned without a fetch.
VideoResult(scan, video) == [ element |-> video, by |-> scan, verdict |-> "likely_ai" ]
TextResult(scan, block) == [ element |-> block, by |-> scan, verdict |-> "likely_ai" ]

\* The result scanImage returns: src/content.js:372-377 for a failed fetch.
ImageResult(scan, img, outcome) ==
  [ element |-> img, by |-> scan,
    verdict |-> IF outcome = "unfetched" THEN "no_metadata" ELSE "ai_detected" ]

\* A scan that goes on only once every image was scanned from its bytes.
AllScanned(outcomes) == \A img \in Images : outcomes[img] = "scanned"

\* Promise.allSettled of line 959: every promise has ended, however.
AllSettled(outcomes) == \A img \in Images : outcomes[img] # "pending"

\* Lines 961-970: the summary sent in SCAN_COMPLETE and returned, read
\* through the module-level binding.
SummarySent(objects, current) ==
  Some([ object |-> current,
         images |-> objects[current].images,
         videos |-> objects[current].videos,
         text   |-> objects[current].text ])

PageInit ==
  /\ summaries = << EmptySummary >>
  /\ scanSummary = 1
  /\ scans = << >>
  /\ scannedElements = [ e \in PageElements |-> None ]
  /\ badges = {}
  /\ NoImage
  /\ NoConfidence
  /\ NoText
  /\ NoDetect
  /\ NoLimiter
  /\ NoFetch
  /\ NoWorker

\* SCAN_PAGE arrives (lines 982-992) and scanPage runs to its await (lines
\* 881-959): the badges are removed, a new summary object is bound, every
\* image's fetch is started, and the video and the text block, which need
\* no fetch, are scanned and recorded before anything else can run.
ScanPage ==
  /\ Len(scans) < MaxScans
  /\ LET scan   == Len(scans) + 1
         object == Len(summaries) + 1
     IN  /\ summaries' = Append(summaries,
              [ images |-> << >>,
                videos |-> << VideoResult(scan, "v") >>,
                text   |-> << TextResult(scan, "t") >> ])
         /\ scanSummary' = object
         /\ scans' = Append(scans, [ outcomes |-> [ img \in Images |-> "pending" ],
                                     sent     |-> None ])
         /\ scannedElements' = [ scannedElements EXCEPT
              !["v"] = Some(VideoResult(scan, "v")),
              !["t"] = Some(TextResult(scan, "t")) ]
         /\ badges' = { "v", "t" }
  /\ UNCHANGED << imageVars, confidenceVars, textVars, detectVars, limiterVars,
                  fetchVars, workerVars >>

\* The promise of one image of one scan ends (lines 895-907): a result is
\* recorded in scannedElements and pushed to the summary the module-level
\* binding refers to now; a throw is caught.  When it was the scan's last
\* promise, scanPage goes on at once (lines 959-970).
ImageSettles ==
  /\ \E scan \in 1..Len(scans), img \in Images : \E outcome \in Outcomes(img) :
       /\ scans[scan].outcomes[img] = "pending"
       /\ LET result   == ImageResult(scan, img, outcome)
              recorded == outcome # "threw"
              objects  == IF recorded
                          THEN [ summaries EXCEPT ![scanSummary].images = Append(@, result) ]
                          ELSE summaries
              outcomes == [ scans[scan].outcomes EXCEPT ![img] = outcome ]
          IN  /\ summaries' = objects
              /\ scannedElements' = IF recorded
                                    THEN [ scannedElements EXCEPT ![img] = Some(result) ]
                                    ELSE scannedElements
              /\ badges' = IF recorded /\ result.verdict # "no_metadata"
                           THEN badges \cup {img} ELSE badges
              /\ scans' = [ scans EXCEPT
                   ![scan].outcomes = outcomes,
                   ![scan].sent = IF AllSettled(outcomes)
                                  THEN SummarySent(objects, scanSummary) ELSE @ ]
  /\ UNCHANGED << scanSummary,
                  imageVars, confidenceVars, textVars, detectVars, limiterVars,
                  fetchVars, workerVars >>

PageNext == ScanPage \/ ImageSettles

PageSpec == PageInit /\ [][PageNext]_vars

\* Every fetch ends: the browser answers or fails each request in time.
FairPageSpec == PageSpec /\ WF_vars(ImageSettles)

(***************************************************************************)
(* The properties.                                                         *)
(***************************************************************************)

\* C1: in scanBuffer (and in the extension's scanImageUrl) a scan in which a
\* hard-evidence detector fired (an AI tool signature found by parseMetadata,
\* an AI digital source type, a SynthID mention) ends with the verdict
\* ai_detected, whatever the provenance step and the URL step did.
HardEvidenceWins ==
  /\ apiRun # None =>
       LET run == apiRun[1]
       IN  (run.meta.software # << >> \/ run.meta.iptcDigitalSource # "" \/ run.synthid)
             => run.result.verdict = "ai_detected"
  /\ (extRun # None /\ extRun[1].fetched) =>
       LET run == extRun[1].run
       IN  (run.meta.software # << >> \/ run.meta.iptcDigitalSource # "" \/ run.synthid)
             => run.result.verdict = "ai_detected"

\* A scanBuffer run where the provenance step set likely_real for a camera,
\* a signature was then found, the URL matched a host pattern, and the
\* verdict is ai_detected.
HardEvidenceOverCamera ==
  /\ apiRun # None
  /\ apiRun[1].verdicts[1] = "likely_real"
  /\ apiRun[1].meta.software # << >>
  /\ apiRun[1].result.signals["urlPattern"]
  /\ apiRun[1].result.verdict = "ai_detected"

\* C2: the weak signals (the URL pattern, and in the extension the alt or
\* title text) change the verdict only from no_metadata to likely_ai: a
\* verdict of ai_detected, likely_real or uncertain before the step is the
\* verdict after it, and it is the verdict returned.
WeakSignalsOnlyUpgrade ==
  /\ apiRun # None =>
       LET v == apiRun[1].verdicts
       IN  /\ v[5] # v[4] => (v[4] = "no_metadata" /\ v[5] = "likely_ai")
           /\ apiRun[1].result.verdict = v[5]
  /\ (extRun # None /\ extRun[1].fetched) =>
       LET v == extRun[1].run.verdicts
       IN  /\ v[5] # v[4] => (v[4] = "no_metadata" /\ v[5] = "likely_ai")
           /\ v[6] # v[5] => (v[5] = "no_metadata" /\ v[6] = "likely_ai")
           /\ extRun[1].run.result.verdict = v[6]

\* An extension scan of a camera-credited image whose URL and alt text both
\* matched: the verdict stays likely_real.
WeakSignalsLeaveCamera ==
  /\ extRun # None /\ extRun[1].fetched
  /\ extRun[1].run.verdicts[4] = "likely_real"
  /\ extRun[1].run.result.signals["urlPattern"]
  /\ extRun[1].run.result.signals["altText"]
  /\ extRun[1].run.result.verdict = "likely_real"

\* C3: when scanBuffer finds provenance and no later detector fires, the
\* verdict is ai_detected if the claim generator holds a token of the AI
\* vocabulary; otherwise likely_real if it holds a token of the camera
\* vocabulary; otherwise ai_detected if the decoded manifest text holds a
\* token of the AI vocabulary; otherwise uncertain.  The tests are
\* substring tests on the lower-cased text.
ProvenanceVerdict ==
  apiRun # None =>
    LET run == apiRun[1]
        gen == run.c2pa.claimGenerator
        low == IF Truthy(gen) THEN ToLowerCase(gen[1]) ELSE << >>
    IN  ( /\ run.c2pa.found
          /\ run.meta.software = << >>
          /\ run.meta.iptcDigitalSource = ""
          /\ ~run.synthid
          /\ ~run.result.signals["urlPattern"] )
        => run.result.verdict =
             IF SomeIncluded(C2PA_CLAIM_AI, low) THEN "ai_detected"
             ELSE IF SomeIncluded(C2PA_CLAIM_CAMERA, low) THEN "likely_real"
             ELSE IF SomeIncluded(C2PA_CLAIM_AI, ToLowerCase(run.c2pa.decodedText[1]))
                  THEN "ai_detected"
             ELSE "uncertain"

\* A scanBuffer run on a manifest whose claim generator holds a token of
\* both vocabularies ("Bing Camera"), with no later detector: ai_detected.
GeneratorInBothVocabularies ==
  /\ apiRun # None
  /\ apiRun[1].c2pa.found
  /\ Truthy(apiRun[1].c2pa.claimGenerator)
  /\ SomeIncluded(C2PA_CLAIM_AI, ToLowerCase(apiRun[1].c2pa.claimGenerator[1]))
  /\ SomeIncluded(C2PA_CLAIM_CAMERA, ToLowerCase(apiRun[1].c2pa.claimGenerator[1]))
  /\ apiRun[1].meta.software = << >>
  /\ apiRun[1].meta.iptcDigitalSource = ""
  /\ ~apiRun[1].synthid
  /\ ~apiRun[1].result.signals["urlPattern"]
  /\ apiRun[1].result.verdict = "ai_detected"

\* C4: for every set of signals calculateImageConfidence returns an integer
\* from 5 to 99, and 5 (never 0) when no signal is present.
ConfidenceInRange ==
  confidence # None =>
    /\ confidence[1].before \in 5..99
    /\ confidence[1].after \in 5..99
    /\ signals = NoSignals => confidence[1].before = 5

\* The confidence of the empty set of signals, calculated: the floor of 5.
ConfidenceOfNoSignals ==
  /\ confidence # None
  /\ signals = NoSignals
  /\ confidence[1].before = 5

\* C5: for every set S of signals and every signal x outside it,
\* calculateImageConfidence(S with x) >= calculateImageConfidence(S).
ConfidenceMonotone ==
  confidence # None => confidence[1].after >= confidence[1].before

\* A signal added to a set whose confidence is already capped at 99: the
\* confidence stays 99.
ConfidenceStaysCapped ==
  /\ confidence # None
  /\ ~signals[added]
  /\ confidence[1].before = 99
  /\ confidence[1].after = 99

\* C6: every image scan result, scanBuffer's and scanImageUrl's, has a
\* reasons list that is not empty and holds one entry per detector that
\* fired (provenance, signature, digital source type, SynthID, URL, alt
\* text), or the one default reason when none fired.
ReasonsNeverEmpty ==
  /\ apiRun # None =>
       LET run   == apiRun[1]
           fired == (IF run.c2pa.found THEN 1 ELSE 0)
                      + (IF run.meta.software # << >> THEN 1 ELSE 0)
                      + (IF run.meta.iptcDigitalSource # "" THEN 1 ELSE 0)
                      + (IF run.synthid THEN 1 ELSE 0)
                      + (IF run.result.signals["urlPattern"] THEN 1 ELSE 0)
       IN  Len(run.result.reasons) = Max(1, fired)
  /\ (extRun # None /\ extRun[1].fetched) =>
       LET run   == extRun[1].run
           fired == (IF run.c2pa.found THEN 1 ELSE 0)
                      + (IF run.meta.software # << >> THEN 1 ELSE 0)
                      + (IF run.meta.iptcDigitalSource # "" THEN 1 ELSE 0)
                      + (IF run.synthid THEN 1 ELSE 0)
                      + (IF run.result.signals["urlPattern"] THEN 1 ELSE 0)
                      + (IF run.result.signals["altText"] THEN 1 ELSE 0)
       IN  Len(run.result.reasons) = Max(1, fired)

\* C7: scanImageUrl with no element and scanBuffer give the same verdict,
\* confidence, source and reasons for every buffer and URL.
SameAnalysisCore ==
  (apiRun # None /\ extRun # None /\ extRun[1].fetched /\ imgElement = None) =>
    LET a == apiRun[1].result
        e == extRun[1].run.result
    IN  /\ a.verdict = e.verdict
        /\ a.confidence = e.confidence
        /\ a.source = e.source
        /\ a.reasons = e.reasons

\* C8: scanTextBlock returns null for every text shorter than 300
\* characters, whatever it contains.
ShortTextGivesNull ==
  (textRun # None /\ Len(text) < 300) => textRun[1].result = None

\* scanTextBlock run on a text of 299 characters that holds three LLM
\* phrases: null.
ShortTextWithPhrases ==
  /\ textRun # None
  /\ Len(text) = 299
  /\ textRun[1].result = None
  /\ LET counts == PhraseCounts(ToLowerCase(text))
     IN  SumOver(counts, DOMAIN counts) >= 3

\* C9: no TextResult comes back for a text outside 300..50,000 characters,
\* neither from scanTextBlock nor from POST /api/analyze-text.
NoResultOutsideBounds ==
  (Len(text) < 300 \/ Len(text) > 50000) =>
    /\ textRun # None => textRun[1].result = None
    /\ response # None => response[1].result = None

\* C10: the score of a TextResult is the sum of the weights of the
\* heuristics that fired (phrases 25 for three or more hits, 10 for one or
\* two; sentence uniformity 20; paragraph uniformity 15; transition density
\* 15; formality 10), lies in 0..85, and gives the verdict: likely_ai from
\* 50, uncertain from 30 to 49, likely_real below 30.
ScoreIsWeightSum ==
  (textRun # None /\ textRun[1].result # None) =>
    LET h == textRun[1].heuristics[1]
        r == textRun[1].result[1]
    IN  /\ r.score = (IF h.phraseHits >= 3 THEN 25 ELSE IF h.phraseHits >= 1 THEN 10 ELSE 0)
                       + (IF h.sentence THEN 20 ELSE 0)
                       + (IF h.paragraph THEN 15 ELSE 0)
                       + (IF h.transition THEN 15 ELSE 0)
                       + (IF h.formality THEN 10 ELSE 0)
        /\ r.score \in 0..85
        /\ r.score >= 50 => r.verdict = "likely_ai"
        /\ (r.score >= 30 /\ r.score <= 49) => r.verdict = "uncertain"
        /\ r.score < 30 => r.verdict = "likely_real"

\* A TextResult whose score is exactly 50: likely_ai.
ScoreAtFirstThreshold ==
  /\ textRun # None
  /\ textRun[1].result # None
  /\ textRun[1].result[1].score = 50
  /\ textRun[1].result[1].verdict = "likely_ai"

\* C11: scanTextBlock returns no result exactly when the text is shorter
\* than 300 characters, or the score is below 30 (likely_real) and no
\* heuristic recorded a signal; one or two phrase hits add 10 to the score
\* and record none.  In every other case it returns a TextResult.
SuppressionRule ==
  textRun # None =>
    LET run == textRun[1]
    IN  IF Len(text) < 300 THEN run.result = None
        ELSE LET h     == run.heuristics[1]
                 fired == h.phraseHits >= 3 \/ h.sentence \/ h.paragraph
                            \/ h.transition \/ h.formality
                 score == (IF h.phraseHits >= 3 THEN 25
                           ELSE IF h.phraseHits >= 1 THEN 10 ELSE 0)
                            + (IF h.sentence THEN 20 ELSE 0)
                            + (IF h.paragraph THEN 15 ELSE 0)
                            + (IF h.transition THEN 15 ELSE 0)
                            + (IF h.formality THEN 10 ELSE 0)
             IN  run.result = None <=> (score < 30 /\ ~fired)

\* A text of 300 characters or more with one or two phrase hits and no
\* signal: score 10, no result.
SuppressedWithPhraseHits ==
  /\ textRun # None
  /\ Len(text) >= 300
  /\ textRun[1].heuristics # None
  /\ textRun[1].heuristics[1].phraseHits \in 1..2
  /\ TextScore(textRun[1].heuristics[1]) = 10
  /\ textRun[1].result = None

\* C12: the confidence of a TextResult follows the piecewise rule on its
\* score: 90 from 70; 65 + 1.25 * (score - 50) from 50 to 69;
\* 40 + 1.25 * (score - 30) from 30 to 49; max(5, 1.3 * score) below 30;
\* each rounded to the nearest integer, halves upward.  It is an integer
\* from 5 to 90.  (c is x rounded when c <= x + 1/2 < c + 1.)
TextConfidenceRule ==
  (textRun # None /\ textRun[1].result # None) =>
    LET s == textRun[1].result[1].score
        c == textRun[1].result[1].confidence
    IN  /\ c \in 5..90
        /\ s >= 70 => c = 90
        /\ (s >= 50 /\ s <= 69) =>
             /\ 4 * (c - 65) <= 5 * (s - 50) + 2
             /\ 5 * (s - 50) + 2 < 4 * (c - 65) + 4
        /\ (s >= 30 /\ s <= 49) =>
             /\ 4 * (c - 40) <= 5 * (s - 30) + 2
             /\ 5 * (s - 30) + 2 < 4 * (c - 40) + 4
        /\ s < 30 =>
             \/ c = 5 /\ 13 * s + 5 < 60
             \/ c >= 5 /\ 10 * c <= 13 * s + 5 /\ 13 * s + 5 < 10 * c + 10

\* A TextResult whose score is 15: 1.3 * 15 = 19.5 is rounded to 20.
TextConfidenceOfHalf ==
  /\ textRun # None
  /\ textRun[1].result # None
  /\ textRun[1].result[1].score = 15
  /\ textRun[1].result[1].confidence = 20

\* C13: the confidence of every reported result lies in the band the README
\* gives for its verdict: likely_ai from 50 to 85, uncertain from 30 to 50,
\* likely_real below 30; for the results of scanBuffer, scanImageUrl and
\* scanTextBlock.
InVerdictBand(r) ==
  /\ r.verdict = "likely_ai" => (r.confidence >= 50 /\ r.confidence <= 85)
  /\ r.verdict = "uncertain" => (r.confidence >= 30 /\ r.confidence <= 50)
  /\ r.verdict = "likely_real" => r.confidence < 30

ConfidenceInVerdictBand ==
  /\ apiRun # None => InVerdictBand(apiRun[1].result)
  /\ extRun # None => InVerdictBand(extRun[1].run.result)
  /\ (textRun # None /\ textRun[1].result # None) =>
       InVerdictBand(textRun[1].result[1])

\* The first APP1 segment of the buffer holds the token "dall-e" in its
\* printable runs.
DalleInFirstSegment ==
  /\ FirstSegmentStrings(buffer) # None
  /\ Includes(ToLowerCase(JoinWithSpace(FirstSegmentStrings(buffer)[1])),
              <<100,97,108,108,45,101>>)  \* "dall-e"

\* C14, as stated: an image whose first metadata segment contains "dall-e"
\* yields verdict ai_detected, source "DALL-E" and confidence >= 90 from
\* scanBuffer, whatever else the buffer and the URL contain.
DalleSegmentNamesDalle ==
  (apiRun # None /\ DalleInFirstSegment) =>
    /\ apiRun[1].result.verdict = "ai_detected"
    /\ apiRun[1].result.source = Some(<<68,65,76,76,45,69>>)  \* "DALL-E"
    /\ apiRun[1].result.confidence >= 90

\* C14, amended: such an image yields verdict ai_detected and confidence
\* >= 90 whatever else the buffer and the URL contain; its source is
\* "DALL-E" when the provenance step has set no source, and the source of
\* the provenance step otherwise.
DalleSegmentDetected ==
  (apiRun # None /\ DalleInFirstSegment) =>
    /\ apiRun[1].result.verdict = "ai_detected"
    /\ apiRun[1].result.confidence >= 90
    /\ apiRun[1].result.source =
         IF Truthy(apiRun[1].provenanceSource) THEN apiRun[1].provenanceSource
         ELSE Some(<<68,65,76,76,45,69>>)  \* "DALL-E"

\* A "dall-e" segment scanned with a URL and no provenance: source "DALL-E".
DalleSegmentScanned ==
  /\ apiRun # None
  /\ DalleInFirstSegment
  /\ url # None
  /\ ~apiRun[1].c2pa.found
  /\ apiRun[1].result.verdict = "ai_detected"
  /\ apiRun[1].result.source = Some(<<68,65,76,76,45,69>>)  \* "DALL-E"

\* C15, as stated: a buffer whose claim generator is "Leica M11" yields
\* verdict likely_real with source "Leica M11"; one whose claim generator is
\* "Adobe Firefly 2" yields verdict ai_detected with source
\* "Adobe Firefly 2".
GeneratorExamples ==
  apiRun # None =>
    /\ apiRun[1].c2pa.claimGenerator = Some(<<76,101,105,99,97,32,77,49,49>>) =>  \* "Leica M11"
         /\ apiRun[1].result.verdict = "likely_real"
         /\ apiRun[1].result.source = Some(<<76,101,105,99,97,32,77,49,49>>)
    /\ apiRun[1].c2pa.claimGenerator = Some(<<65,100,111,98,101,32,70,105,114,101,102,108,121,32,50>>) =>  \* "Adobe Firefly 2"
         /\ apiRun[1].result.verdict = "ai_detected"
         /\ apiRun[1].result.source = Some(<<65,100,111,98,101,32,70,105,114,101,102,108,121,32,50>>)

\* C15, amended: the claim generator "Leica M11" yields source "Leica M11",
\* and verdict likely_real when the buffer holds no AI signature, no digital
\* source type and no SynthID mention; the claim generator "Adobe Firefly 2"
\* yields verdict ai_detected and source "Adobe Firefly 2", which the
\* metadata-signature step ("adobe firefly") does not replace.
GeneratorExamplesWithoutHardEvidence ==
  apiRun # None =>
    /\ apiRun[1].c2pa.claimGenerator = Some(<<76,101,105,99,97,32,77,49,49>>) =>  \* "Leica M11"
         /\ apiRun[1].result.source = Some(<<76,101,105,99,97,32,77,49,49>>)
         /\ ( /\ apiRun[1].meta.aiSignature = << >>
              /\ apiRun[1].meta.iptcDigitalSource = ""
              /\ ~apiRun[1].synthid )
              => apiRun[1].result.verdict = "likely_real"
    /\ apiRun[1].c2pa.claimGenerator = Some(<<65,100,111,98,101,32,70,105,114,101,102,108,121,32,50>>) =>  \* "Adobe Firefly 2"
         /\ apiRun[1].result.verdict = "ai_detected"
         /\ apiRun[1].result.source = Some(<<65,100,111,98,101,32,70,105,114,101,102,108,121,32,50>>)
         /\ apiRun[1].result.fingerprint.software # None

\* The generator "Adobe Firefly 2" with the signature "adobe firefly" found
\* by the metadata step: the source is still the generator.
FireflyGeneratorKept ==
  /\ apiRun # None
  /\ apiRun[1].c2pa.claimGenerator = Some(<<65,100,111,98,101,32,70,105,114,101,102,108,121,32,50>>)  \* "Adobe Firefly 2"
  /\ apiRun[1].meta.aiSignature = <<97,100,111,98,101,32,102,105,114,101,102,108,121>>  \* "adobe firefly"
  /\ apiRun[1].result.source = Some(<<65,100,111,98,101,32,70,105,114,101,102,108,121,32,50>>)

\* The buffer gave no provenance, no AI signature, no digital source type and
\* no SynthID mention, and the URL contains "replicate.delivery" (compared
\* in lower case, as the URL step compares).
OnlyReplicateUrl ==
  /\ apiRun # None
  /\ ~apiRun[1].c2pa.found
  /\ apiRun[1].meta.aiSignature = << >>
  /\ apiRun[1].meta.iptcDigitalSource = ""
  /\ ~apiRun[1].synthid
  /\ url # None
  /\ Includes(ToLowerCase(url[1]),
              <<114,101,112,108,105,99,97,116,101,46,100,101,108,105,118,101,114,121>>)  \* "replicate.delivery"

\* C16, as stated: such a scan yields verdict likely_ai and
\* fingerprint.urlPattern = "replicate.delivery", also when the URL contains
\* other AI-host fragments such as "openai" or "dalle".
ReplicateUrlPattern ==
  OnlyReplicateUrl =>
    /\ apiRun[1].result.verdict = "likely_ai"
    /\ apiRun[1].result.fingerprint.urlPattern =
         Some(<<114,101,112,108,105,99,97,116,101,46,100,101,108,105,118,101,114,121>>)  \* "replicate.delivery"

\* C16, amended: such a scan yields verdict likely_ai, and
\* fingerprint.urlPattern is the first entry of AI_HOST_PATTERNS the URL
\* contains: "replicate.delivery" when the URL contains none of the five
\* entries listed before it ("oaidalleapi", "dalle", "openai", "midjourney",
\* "mj-gallery").
FirstListedUrlPattern ==
  OnlyReplicateUrl =>
    LET low  == ToLowerCase(url[1])
        listed == {k \in 1..Len(AI_HOST_PATTERNS) : Includes(low, AI_HOST_PATTERNS[k])}
    IN  /\ apiRun[1].result.verdict = "likely_ai"
        /\ \E k \in listed :
             /\ \A j \in listed : k <= j
             /\ apiRun[1].result.fingerprint.urlPattern = Some(AI_HOST_PATTERNS[k])
        /\ (\A k \in 1..5 : k \notin listed) =>
             apiRun[1].result.fingerprint.urlPattern =
               Some(<<114,101,112,108,105,99,97,116,101,46,100,101,108,105,118,101,114,121>>)

\* A URL that contains "replicate.delivery", "openai" and "dalle": the
\* pattern recorded is "dalle".
MixedUrlGivesDalle ==
  /\ OnlyReplicateUrl
  /\ url = Some(MixedHostUrl)
  /\ apiRun[1].result.verdict = "likely_ai"
  /\ apiRun[1].result.fingerprint.urlPattern = Some(<<100,97,108,108,101>>)  \* "dalle"

\* The coefficient of variation of the sentence lengths of t, in words as
\* line 483 counts them, is above 0.5: with n lengths, sum S and sum of
\* squares Q, cv^2 = (n*Q - S^2) / S^2 > 1/4.
SentenceCvAboveHalf(t) ==
  LET marks   == SentenceMarks(t)
      lengths == [b \in marks |-> SentenceWords(t, b)]
      n       == Cardinality(marks)
      S       == SumOver(lengths, marks)
      Q       == SumOver([b \in marks |-> lengths[b] * lengths[b]], marks)
  IN  n > 0 /\ 4 * (n * Q - S * S) > S * S

\* A scanned text of 301 characters with no phrase hit and varied sentences.
VariedAt301 ==
  /\ textRun # None
  /\ Len(text) = 301
  /\ textRun[1].heuristics[1].phraseHits = 0
  /\ SentenceCvAboveHalf(text)

MarkerAnywhere ==
  \E i \in 1..(Len(buffer) - 3) : SubSeq(buffer, i, i + 3) = <<106,117,109,98>>

\* C18: detectC2PA reports found = true for every buffer that contains the
\* manifest-box marker at any offset, also when its only occurrence is
\* within the last 8 bytes and the decoded text holds no provenance keyword.
MarkerAlwaysFound ==
  (apiRun # None /\ MarkerAnywhere) => apiRun[1].c2pa.found

\* The 2-byte length field of the first APP1 segment points past the end of
\* the buffer.
SegmentPastEnd ==
  /\ App1Offsets(buffer) # {}
  /\ LET i == Least(App1Offsets(buffer))
     IN  i + 4 + SegmentLength(buffer, i) > Len(buffer)

\* C19: when the length field of the first metadata segment points past the
\* end of the buffer, nothing is taken from that segment (the AI signature
\* is the one the XMP packet, or failing that the whole prefix text, gives,
\* and there is no Software, DateTime or Camera Model field), and the other
\* detectors still contribute: the digital source type, the SynthID mention
\* and the URL pattern are what they are for the same bytes.
OverlongSegmentIgnored ==
  (apiRun # None /\ SegmentPastEnd) =>
    LET fullText == ToLowerCase(Decode(buffer, 300000))
        xmp      == MatchXmp(Decode(buffer, 300000))
        inXmp    == IF xmp = None THEN None
                    ELSE FirstIncluded(AI_SOFTWARE_SIGNATURES, ToLowerCase(xmp[1]))
        inFull   == FirstIncluded(AI_SOFTWARE_SIGNATURES, fullText)
        meta     == apiRun[1].meta
    IN  /\ meta.exifFields = NoExifFields
        /\ meta.aiSignature = IF inXmp # None THEN inXmp[1]
                              ELSE IF inFull # None THEN inFull[1] ELSE << >>
        /\ apiRun[1].synthid = SynthIdTest(buffer)
        /\ apiRun[1].result.signals.synthid = SynthIdTest(buffer)
        /\ (url # None /\ SomeIncluded(AI_HOST_PATTERNS, ToLowerCase(url[1])))
             => apiRun[1].result.signals.urlPattern

\* The vocabulary entries that occur in t, by their place in the list.
TokensIn(t) ==
  {k \in 1..Len(AI_SOFTWARE_SIGNATURES) :
     Includes(ToLowerCase(t), AI_SOFTWARE_SIGNATURES[k])}

\* C20: parseMetadata picks the AI signature by location: the first-listed
\* token of the first segment's printable runs when they hold one, whatever
\* the XMP packet and the rest of the text hold; otherwise the first-listed
\* token of the XMP packet when it holds one; otherwise the first-listed
\* token of the whole prefix text; and the empty string when no token
\* occurs anywhere.
SignatureByLocation ==
  apiRun # None =>
    LET seg    == FirstSegmentStrings(buffer)
        xmp    == MatchXmp(Decode(buffer, 300000))
        inSeg  == IF seg = None THEN {} ELSE TokensIn(JoinWithSpace(seg[1]))
        inXmp  == IF xmp = None THEN {} ELSE TokensIn(xmp[1])
        inFull == TokensIn(Decode(buffer, 300000))
        from   == IF inSeg # {} THEN inSeg ELSE IF inXmp # {} THEN inXmp ELSE inFull
        sig    == apiRun[1].meta.aiSignature
    IN  IF from = {} THEN sig = << >>
        ELSE \E k \in from : /\ \A j \in from : k <= j
                             /\ sig = AI_SOFTWARE_SIGNATURES[k]

\* The segment holds "midjourney" and the text before it "DALL-E", listed
\* first in the vocabulary: the signature is "midjourney".
SegmentTokenPreferred ==
  /\ apiRun # None
  /\ buffer = PlainToken \o MidjourneySegment
  /\ apiRun[1].meta.aiSignature = <<109,105,100,106,111,117,114,110,101,121>>  \* "midjourney"

\* The signals of a result that are hard evidence of AI generation.
HardSignals == {"c2pa", "exifSignature", "iptc", "synthid"}

\* C26: the verdict of scanBuffer is ai_detected exactly when one of the
\* signals c2pa, exifSignature, iptc, synthid is set; an ai_detected result
\* has confidence 90 or more, a result with another verdict confidence 5 or
\* 65.
AiDetectedIffHardSignal ==
  apiRun # None =>
    LET r == apiRun[1].result
    IN  /\ r.verdict = "ai_detected" <=> (\E s \in HardSignals : r.signals[s])
        /\ r.verdict = "ai_detected" => r.confidence >= 90
        /\ r.verdict # "ai_detected" => r.confidence \in {5, 65}

\* A capture device's manifest served from an AI host: likely_real at 65.
CameraOnAiHost ==
  /\ apiRun # None
  /\ apiRun[1].result.verdict = "likely_real"
  /\ apiRun[1].result.signals["urlPattern"]
  /\ apiRun[1].result.confidence = 65

\* C27: every result scanTextBlock returns carries at least one fired
\* signal as a reason, never the fallback reason, and a score of 15 or more;
\* a text with no signal scores below 30 and gets no result.
TextResultHasSignal ==
  textRun # None =>
    LET run == textRun[1]
    IN  /\ run.result # None =>
             /\ Len(run.result[1].reasons) >= 1
             /\ run.result[1].reasons = TextSignals(run.heuristics[1])
             /\ \A k \in 1..Len(run.result[1].reasons) :
                  run.result[1].reasons[k] # "No strong AI signals detected."
             /\ run.result[1].score >= 15
        /\ (run.heuristics # None /\ Len(TextSignals(run.heuristics[1])) = 0) =>
             /\ TextScore(run.heuristics[1]) < 30
             /\ run.result = None

\* A result at the lowest score a signal gives.
LowestScoredResult ==
  /\ textRun # None
  /\ textRun[1].result # None
  /\ textRun[1].result[1].score = 15

\* C23: when the bytes of an item cannot be obtained the analysis is not
\* run for it.  The extension returns a no_metadata result with no signal,
\* confidence 0 and the fetch reason alone, with no detector output; the
\* handler of /api/scan answers 422 FETCH_FAILED with no result and no call
\* of scanBuffer.
FetchFailureSkipsCore ==
  /\ (extRun # None /\ ~extRun[1].fetched) =>
       LET run == extRun[1].run
       IN  /\ DOMAIN run = {"result"}
           /\ run.result.verdict = "no_metadata"
           /\ run.result.signals = NoSignals
           /\ run.result.confidence = 0
           /\ run.result.fingerprint = NoFingerprint
           /\ run.result.reasons =
                << Reason("Could not fetch image data (CORS blocked).", << >>) >>
  /\ (apiResponse # None /\ ~apiResponse[1].fetched) =>
       /\ apiResponse[1].status = 422
       /\ apiResponse[1].code = "FETCH_FAILED"
       /\ ~apiResponse[1].scanned
       /\ apiRun = None

\* Both callers failed to fetch an image whose bytes hold an AI signature.
FetchFailedForBoth ==
  /\ extRun # None /\ ~extRun[1].fetched
  /\ apiResponse # None /\ ~apiResponse[1].fetched
  /\ (ScanBufferRun(buffer, url)).result.verdict = "ai_detected"

ServedKeys == { served[i].key : i \in 1..Len(served) }

\* The requests of burst i that were passed on to the API handlers.
PassedIn(i) ==
  Cardinality({ j \in 1..Len(served[i].outcomes) :
                  served[i].outcomes[j].response = None })

\* The requests passed on in the bursts of the set.
RECURSIVE PassedInAll(_)
PassedInAll(bursts) ==
  IF bursts = {} THEN 0
  ELSE LET i == Least(bursts) IN PassedIn(i) + PassedInAll(bursts \ {i})

\* The requests of a key passed on within the 60 seconds that begin at from.
PassedWithinMinute(key, from) ==
  PassedInAll({ i \in 1..Len(served) :
                  /\ served[i].key = key
                  /\ served[i].at >= from
                  /\ served[i].at < from + WINDOW_MS })

\* The requests of a key passed on in the window that ends at resetAt.
PassedInWindow(key, resetAt) ==
  PassedInAll({ i \in 1..Len(served) :
                  /\ served[i].key = key
                  /\ served[i].outcomes[1].resetAt = resetAt })

\* C24 as stated: for every IP and every 60-second interval, at most 30 of
\* the IP's requests are passed on.
AtMostThirtyPerMinute ==
  \A key \in ServedKeys : \A i \in 1..Len(served) :
    PassedWithinMinute(key, served[i].at) <= MAX_REQUESTS

\* C24, amended: the limit holds per window.  The requests of an IP that
\* carry the same resetAt form one window, and the requests of one
\* millisecond fall into one window; at most 30 requests of a window are
\* passed on, a request is passed on exactly when its count in the window
\* is 30 or less, and every other one is answered 429 RATE_LIMITED.  A
\* 60-second interval meets at most two windows and never the first
\* request of the earlier one, so at most 59 requests of an IP are passed
\* on in it.
AtMostThirtyPerWindow ==
  /\ \A i \in 1..Len(served) : \A j \in 1..Len(served[i].outcomes) :
       LET o == served[i].outcomes[j]
       IN  /\ o.resetAt = served[i].outcomes[1].resetAt
           /\ o.response = None <=> o.count <= MAX_REQUESTS
           /\ o.response # None =>
                /\ o.response[1].status = 429
                /\ o.response[1].code = "RATE_LIMITED"
                /\ o.response[1].retryAfter \in 0..60
  /\ \A i \in 1..Len(served) :
       /\ PassedInWindow(served[i].key, served[i].outcomes[1].resetAt) <= MAX_REQUESTS
       /\ PassedWithinMinute(served[i].key, served[i].at) <= 2 * MAX_REQUESTS - 1

\* One request, then thirty at the last millisecond of its window and
\* thirty in the millisecond after: 59 of them passed within 2 ms.
FiftyNineWithinMinute ==
  \E key \in ServedKeys : \E i \in 1..Len(served) :
    /\ PassedWithinMinute(key, served[i].at) = 2 * MAX_REQUESTS - 1
    /\ \E j \in 1..Len(served) :
         /\ served[j].key = key
         /\ \E k \in 1..Len(served[j].outcomes) : served[j].outcomes[k].response # None

\* What a burst of requests of one key may do to the map: the window of
\* the key is kept, with its resetAt, while the clock has not passed it,
\* every request counted, the rejected ones as well; once the clock has
\* passed it the first request opens a window of its own with count 1 and
\* is passed on; the entry of any other key is left as it was, or deleted
\* by the pruning of lines 38-42 when its resetAt has passed.
BurstKeepsWindows ==
  LET burst == served'[Len(served')]
      key   == burst.key
      n     == Len(burst.outcomes)
      open  == key \in DOMAIN hits /\ ~(now > hits[key].resetAt)
  IN  /\ open =>
           /\ \A j \in 1..n :
                /\ burst.outcomes[j].resetAt = hits[key].resetAt
                /\ burst.outcomes[j].count = hits[key].count + j
           /\ hits'[key] = [ count |-> hits[key].count + n,
                             resetAt |-> hits[key].resetAt ]
      /\ ~open =>
           /\ burst.outcomes[1].count = 1
           /\ burst.outcomes[1].response = None
           /\ \A j \in 1..n : burst.outcomes[j].resetAt = now + WINDOW_MS
           /\ hits'[key] = [ count |-> n, resetAt |-> now + WINDOW_MS ]
      /\ \A other \in DOMAIN hits \ {key} :
           IF other \in DOMAIN hits' THEN hits'[other] = hits[other]
           ELSE now > hits[other].resetAt

\* C30: the resetAt of an entry is never changed after the entry is
\* created, so rejected requests do not extend the block; the first
\* request of an IP after its resetAt starts a fresh window with count 1
\* and is passed on; the requests of one IP never change the count or the
\* resetAt of another IP's entry, and the passing of time changes no entry.
ResetAtNeverChanged ==
  [][ IF served' # served THEN BurstKeepsWindows ELSE hits' = hits ]_vars

\* A client was rejected in one window and, in the millisecond after that
\* window's resetAt, passed on in a fresh one with count 1.
PassedAfterBlock ==
  /\ Len(served) = 3
  /\ served[1].key = served[3].key
  /\ served[2].key = served[3].key
  /\ served[2].outcomes[Len(served[2].outcomes)].response # None
  /\ served[2].outcomes[1].resetAt = served[1].outcomes[1].resetAt
  /\ served[3].at = served[2].outcomes[1].resetAt + 1
  /\ served[3].outcomes[1].count = 1
  /\ served[3].outcomes[1].response = None

\* C25 as stated: the buffer fetchImageHead(url, MAX_FETCH_BYTES) returns
\* never holds more than MAX_FETCH_BYTES bytes, whatever the sizes of the
\* chunks the stream delivers.
HeadWithinLimit ==
  combined # None => combined[1] <= MAX_FETCH_BYTES

\* C29: the auto-scan is debounced.  At most one timer is pending, the one
\* of the last activation, and autoScanTimeout holds it; every call of
\* triggerAutoScan is made for the tab of an activation at least 800 ms
\* after it, no activation is answered by two calls, and an activation that
\* was followed by another one within less than 800 ms is answered by none;
\* SCAN_PAGE is sent only by a call that read the setting as enabled and a
\* tab URL that begins with http: or https:.
AutoScanDebounced ==
  /\ Cardinality(timers) <= 1
  /\ autoScanTimeout = None <=> timers = {}
  /\ \A t \in timers :
       /\ autoScanTimeout = Some(t.id)
       /\ t.id = Len(activations)
       /\ t.tabId = activations[t.id].tabId
       /\ t.due = activations[t.id].at + AUTO_SCAN_DEBOUNCE_MS
  /\ \A k \in 1..Len(triggered) :
       LET call == triggered[k]
       IN  /\ call.tabId = activations[call.activation].tabId
           /\ call.at >= activations[call.activation].at + AUTO_SCAN_DEBOUNCE_MS
           /\ \A l \in 1..Len(triggered) :
                triggered[l].activation = call.activation => l = k
           /\ call.activation < Len(activations) =>
                activations[call.activation + 1].at >= call.at
           /\ call.sent =>
                /\ call.enabled = Some(TRUE)
                /\ setting # Some(FALSE)
                /\ call.tabUrl # None
                /\ \/ MatchAt(call.tabUrl[1], 1, <<104,116,116,112,58>>)      \* "http:"
                   \/ MatchAt(call.tabUrl[1], 1, <<104,116,116,112,115,58>>)  \* "https:"
  /\ \A i \in 1..(Len(activations) - 1) :
       activations[i + 1].at - activations[i].at < AUTO_SCAN_DEBOUNCE_MS =>
         \A k \in 1..Len(triggered) : triggered[k].activation # i

\* Three activations less than 800 ms apart, of a browser page, a closed
\* tab and an http page: one call, for the http page, which sent SCAN_PAGE.
BurstAnsweredOnce ==
  /\ Len(activations) = 3
  /\ activations[1].tabId = 3
  /\ activations[2].tabId = 4
  /\ activations[3].tabId = 2
  /\ activations[2].at - activations[1].at = AUTO_SCAN_DEBOUNCE_MS - 1
  /\ activations[3].at - activations[2].at < AUTO_SCAN_DEBOUNCE_MS
  /\ Len(triggered) = 1
  /\ triggered[1].activation = 3
  /\ triggered[1].stage = "returned"
  /\ triggered[1].sent
  /\ timers = {}

\* The images for which a promise of the scan produced a result.
ImagesScannedBy(scan) ==
  { img \in Images : scans[scan].outcomes[img] \in { "scanned", "unfetched" } }

\* C28 as stated: the summary a scan sends in SCAN_COMPLETE and returns
\* holds exactly one result per image scanned by that scan, none produced
\* by another scan's promises and no image twice, overlapping scans
\* included.
SummaryOfOwnImages ==
  \A scan \in 1..Len(scans) :
    scans[scan].sent # None =>
      LET images == scans[scan].sent[1].images
      IN  /\ \A k \in 1..Len(images) : images[k].by = scan
          /\ \A k, l \in 1..Len(images) : images[k].element = images[l].element => k = l
          /\ { images[k].element : k \in 1..Len(images) } = ImagesScannedBy(scan)

\* What the scan recorded by the time it ended: the results of its video
\* and its text block are in the summary object it created, and every
\* image for which scanImage returned a result has that result in some
\* summary object and a result in scannedElements.
ResultsRecorded(scan) ==
  /\ summaries[scan + 1].videos = << VideoResult(scan, "v") >>
  /\ summaries[scan + 1].text = << TextResult(scan, "t") >>
  /\ \A img \in ImagesScannedBy(scan) :
       /\ scannedElements[img] # None
       /\ \E object \in 1..Len(summaries) :
            \E k \in 1..Len(summaries[object].images) :
              summaries[object].images[k] =
                ImageResult(scan, img, scans[scan].outcomes[img])

\* The scan ended and sent SCAN_COMPLETE.
ScanCompleted(scan) == Len(scans) >= scan /\ scans[scan].sent # None

====
